---- MODULE Spec2Model ----
(***************************************************************************)
(* Address resolution engine of UFOTRAC: the POST handler of               *)
(* src/app/api/geocode/route.ts, its five provider adapters, the locality  *)
(* acceptance filter and the candidate aggregator.                         *)
(*                                                                         *)
(* Strings are sequences of one-character strings, so that norm, trim,     *)
(* split, includes and the case conversions are computed, not assumed.     *)
(* An absent (undefined) JavaScript value is the one-element sequence      *)
(* Undef, which no string over the character alphabet equals.              *)
(***************************************************************************)
EXTENDS Integers, Sequences, FiniteSets, TLC

(* ------------------------------------------------------------------ *)
(* JavaScript string primitives                                         *)
(* ------------------------------------------------------------------ *)
Undef == << "undefined" >>

\* toLowerCase / toUpperCase of one character, as lookup tables over the letters
LowerOf ==
  [ A |-> "a", B |-> "b", C |-> "c", D |-> "d", E |-> "e", F |-> "f", G |-> "g", H |-> "h", I |-> "i",
    J |-> "j", K |-> "k", L |-> "l", M |-> "m", N |-> "n", O |-> "o", P |-> "p", Q |-> "q", R |-> "r",
    S |-> "s", T |-> "t", U |-> "u", V |-> "v", W |-> "w", X |-> "x", Y |-> "y", Z |-> "z" ]
UpperOf ==
  [ a |-> "A", b |-> "B", c |-> "C", d |-> "D", e |-> "E", f |-> "F", g |-> "G", h |-> "H", i |-> "I",
    j |-> "J", k |-> "K", l |-> "L", m |-> "M", n |-> "N", o |-> "O", p |-> "P", q |-> "Q", r |-> "R",
    s |-> "S", t |-> "T", u |-> "U", v |-> "V", w |-> "W", x |-> "X", y |-> "Y", z |-> "Z" ]
UpperSet == DOMAIN LowerOf
LowerSet == DOMAIN UpperOf
DigitSet == {"0","1","2","3","4","5","6","7","8","9"}

IsUpper(c) == c \in UpperSet
IsLower(c) == c \in LowerSet
IsDigit(c) == c \in DigitSet
IsWordChar(c) == IsUpper(c) \/ IsLower(c) \/ IsDigit(c) \/ c = "_"
IsSpace(c) == c \in {" ", "\t", "\n"}

LowerCh(c) == IF c \in UpperSet THEN LowerOf[c] ELSE c
UpperCh(c) == IF c \in LowerSet THEN UpperOf[c] ELSE c

Truthy(s) == s # Undef /\ s # << >>
\* (s || '')
OrEmpty(s) == IF Truthy(s) THEN s ELSE << >>
\* a || b
Or(a, b) == IF Truthy(a) THEN a ELSE b

RECURSIVE toLowerCase(_)
toLowerCase(s) == IF s = << >> THEN << >> ELSE << LowerCh(Head(s)) >> \o toLowerCase(Tail(s))
RECURSIVE toUpperCase(_)
toUpperCase(s) == IF s = << >> THEN << >> ELSE << UpperCh(Head(s)) >> \o toUpperCase(Tail(s))

RECURSIVE trimStart(_)
trimStart(s) == IF s # << >> /\ IsSpace(Head(s)) THEN trimStart(Tail(s)) ELSE s
RECURSIVE trimEnd(_)
trimEnd(s) == IF s # << >> /\ IsSpace(s[Len(s)]) THEN trimEnd(SubSeq(s, 1, Len(s) - 1)) ELSE s
trim(s) == trimEnd(trimStart(s))

\* String.prototype.includes
includes(f, w) == \E i \in 1..(Len(f) - Len(w) + 1) : SubSeq(f, i, i + Len(w) - 1) = w
startsWith(f, w) == Len(f) >= Len(w) /\ SubSeq(f, 1, Len(w)) = w

\* the array whose elements are those of the function f over 1..n
Arr(f) == << >> \o f

\* Array.prototype.map
Map(list, F(_)) == Arr([k \in 1..Len(list) |-> F(list[k])])

\* String.prototype.split on a one-character separator
RECURSIVE splitFrom(_, _, _)
splitFrom(s, ch, acc) ==
  IF s = << >> THEN << acc >>
  ELSE IF Head(s) = ch THEN << acc >> \o splitFrom(Tail(s), ch, << >>)
  ELSE splitFrom(Tail(s), ch, Append(acc, Head(s)))
split(s, ch) == splitFrom(s, ch, << >>)

\* Array.prototype.join
RECURSIVE join(_, _)
join(parts, sep) ==
  IF parts = << >> THEN << >>
  ELSE IF Len(parts) = 1 THEN parts[1]
  ELSE parts[1] \o sep \o join(Tail(parts), sep)

\* Array.prototype.filter(Boolean) on an array of strings
RECURSIVE filterBoolean(_)
filterBoolean(parts) ==
  IF parts = << >> THEN << >>
  ELSE IF Truthy(Head(parts)) THEN << Head(parts) >> \o filterBoolean(Tail(parts))
  ELSE filterBoolean(Tail(parts))

(* ------------------------------------------------------------------ *)
(* Small helpers                                                        *)
(* ------------------------------------------------------------------ *)
IsNormSep(c) == IsSpace(c) \/ c \in {",", ".", "'", "-"}

\* .replace(/[\s,.'-]+/g, ' ')
RECURSIVE collapseSeps(_, _)
collapseSeps(s, inRun) ==
  IF s = << >> THEN << >>
  ELSE IF IsNormSep(Head(s))
       THEN (IF inRun THEN << >> ELSE << " " >>) \o collapseSeps(Tail(s), TRUE)
       ELSE << Head(s) >> \o collapseSeps(Tail(s), FALSE)

norm(s) == trim(collapseSeps(toLowerCase(OrEmpty(s)), FALSE))

\* US states (code, name), in the order of the source table
US_STATES_TABLE == <<
  << <<"A","L">>, <<"A","l","a","b","a","m","a">> >>,
  << <<"A","K">>, <<"A","l","a","s","k","a">> >>,
  << <<"A","Z">>, <<"A","r","i","z","o","n","a">> >>,
  << <<"A","R">>, <<"A","r","k","a","n","s","a","s">> >>,
  << <<"C","A">>, <<"C","a","l","i","f","o","r","n","i","a">> >>,
  << <<"C","O">>, <<"C","o","l","o","r","a","d","o">> >>,
  << <<"C","T">>, <<"C","o","n","n","e","c","t","i","c","u","t">> >>,
  << <<"D","C">>, <<"D","i","s","t","r","i","c","t"," ","o","f"," ","C","o","l","u","m","b","i","a">> >>,
  << <<"D","E">>, <<"D","e","l","a","w","a","r","e">> >>,
  << <<"F","L">>, <<"F","l","o","r","i","d","a">> >>,
  << <<"G","A">>, <<"G","e","o","r","g","i","a">> >>,
  << <<"H","I">>, <<"H","a","w","a","i","i">> >>,
  << <<"I","A">>, <<"I","o","w","a">> >>,
  << <<"I","D">>, <<"I","d","a","h","o">> >>,
  << <<"I","L">>, <<"I","l","l","i","n","o","i","s">> >>,
  << <<"I","N">>, <<"I","n","d","i","a","n","a">> >>,
  << <<"K","S">>, <<"K","a","n","s","a","s">> >>,
  << <<"K","Y">>, <<"K","e","n","t","u","c","k","y">> >>,
  << <<"L","A">>, <<"L","o","u","i","s","i","a","n","a">> >>,
  << <<"M","A">>, <<"M","a","s","s","a","c","h","u","s","e","t","t","s">> >>,
  << <<"M","D">>, <<"M","a","r","y","l","a","n","d">> >>,
  << <<"M","E">>, <<"M","a","i","n","e">> >>,
  << <<"M","I">>, <<"M","i","c","h","i","g","a","n">> >>,
  << <<"M","N">>, <<"M","i","n","n","e","s","o","t","a">> >>,
  << <<"M","O">>, <<"M","i","s","s","o","u","r","i">> >>,
  << <<"M","S">>, <<"M","i","s","s","i","s","s","i","p","p","i">> >>,
  << <<"M","T">>, <<"M","o","n","t","a","n","a">> >>,
  << <<"N","C">>, <<"N","o","r","t","h"," ","C","a","r","o","l","i","n","a">> >>,
  << <<"N","D">>, <<"N","o","r","t","h"," ","D","a","k","o","t","a">> >>,
  << <<"N","E">>, <<"N","e","b","r","a","s","k","a">> >>,
  << <<"N","H">>, <<"N","e","w"," ","H","a","m","p","s","h","i","r","e">> >>,
  << <<"N","J">>, <<"N","e","w"," ","J","e","r","s","e","y">> >>,
  << <<"N","M">>, <<"N","e","w"," ","M","e","x","i","c","o">> >>,
  << <<"N","V">>, <<"N","e","v","a","d","a">> >>,
  << <<"N","Y">>, <<"N","e","w"," ","Y","o","r","k">> >>,
  << <<"O","H">>, <<"O","h","i","o">> >>,
  << <<"O","K">>, <<"O","k","l","a","h","o","m","a">> >>,
  << <<"O","R">>, <<"O","r","e","g","o","n">> >>,
  << <<"P","A">>, <<"P","e","n","n","s","y","l","v","a","n","i","a">> >>,
  << <<"R","I">>, <<"R","h","o","d","e"," ","I","s","l","a","n","d">> >>,
  << <<"S","C">>, <<"S","o","u","t","h"," ","C","a","r","o","l","i","n","a">> >>,
  << <<"S","D">>, <<"S","o","u","t","h"," ","D","a","k","o","t","a">> >>,
  << <<"T","N">>, <<"T","e","n","n","e","s","s","e","e">> >>,
  << <<"T","X">>, <<"T","e","x","a","s">> >>,
  << <<"U","T">>, <<"U","t","a","h">> >>,
  << <<"V","A">>, <<"V","i","r","g","i","n","i","a">> >>,
  << <<"V","T">>, <<"V","e","r","m","o","n","t">> >>,
  << <<"W","A">>, <<"W","a","s","h","i","n","g","t","o","n">> >>,
  << <<"W","I">>, <<"W","i","s","c","o","n","s","i","n">> >>,
  << <<"W","V">>, <<"W","e","s","t"," ","V","i","r","g","i","n","i","a">> >>,
  << <<"W","Y">>, <<"W","y","o","m","i","n","g">> >>
>>

\* US_STATES[code]
US_STATES(code) ==
  IF \E i \in 1..Len(US_STATES_TABLE) : US_STATES_TABLE[i][1] = code
  THEN US_STATES_TABLE[CHOOSE i \in 1..Len(US_STATES_TABLE) : US_STATES_TABLE[i][1] = code][2]
  ELSE Undef

\* Object.fromEntries(Object.entries(US_STATES).map(([k, v]) => [v.toLowerCase(), k]))
RECURSIVE NamesToCode(_)
NamesToCode(table) ==
  IF table = << >> THEN << >>
  ELSE << << toLowerCase(Head(table)[2]), Head(table)[1] >> >> \o NamesToCode(Tail(table))
STATE_NAMES_TO_CODE_TABLE == NamesToCode(US_STATES_TABLE)

\* STATE_NAMES_TO_CODE[name]
STATE_NAMES_TO_CODE(name) ==
  IF \E i \in 1..Len(STATE_NAMES_TO_CODE_TABLE) : STATE_NAMES_TO_CODE_TABLE[i][1] = name
  THEN STATE_NAMES_TO_CODE_TABLE[CHOOSE i \in 1..Len(STATE_NAMES_TO_CODE_TABLE) :
                                    STATE_NAMES_TO_CODE_TABLE[i][1] = name][2]
  ELSE Undef

(* ------------------------------------------------------------------ *)
(* Matching helpers                                                     *)
(* ------------------------------------------------------------------ *)
inUS(code) ==
  LET c == toLowerCase(OrEmpty(code))
  IN  c = <<"u","s">> \/ c = <<"u","s","a">>

\* sameState without the comparison fCode === e: any region code is taken
\* for the expected one
sameStateAnyCode(foundName, foundCode, expect) ==
  IF ~Truthy(expect) THEN TRUE
  ELSE LET e         == toUpperCase(expect)
           eName     == Or(US_STATES(e), expect)
           eNormName == norm(eName)
           fCode     == toUpperCase(OrEmpty(foundCode))
           fName     == norm(foundName)
       IN  IF fCode # << >> /\ Len(e) = 2 THEN TRUE
           ELSE IF fName # << >> /\ fName = eNormName THEN TRUE
           ELSE FALSE

sameState(foundName, foundCode, expect) ==
  IF ~Truthy(expect) THEN TRUE
  ELSE LET e         == toUpperCase(expect)
           eName     == Or(US_STATES(e), expect)
           eNormName == norm(eName)
           fCode     == toUpperCase(OrEmpty(foundCode))
           fName     == norm(foundName)
       IN  IF fCode # << >> /\ Len(e) = 2 /\ fCode = e THEN TRUE
           ELSE IF fName # << >> /\ fName = eNormName THEN TRUE
           ELSE FALSE

\* cityTokensMatch with need.some in place of need.every
cityTokensMatchSome(foundCity, expect) ==
  IF ~Truthy(expect) THEN TRUE
  ELSE LET f    == norm(foundCity)
           e    == norm(expect)
           need == filterBoolean(split(e, " "))
       IN  IF f = << >> \/ e = << >> THEN FALSE
           ELSE \E k \in 1..Len(need) : includes(f, need[k])

cityTokensMatch(foundCity, expect) ==
  IF ~Truthy(expect) THEN TRUE
  ELSE LET f    == norm(foundCity)
           e    == norm(expect)
           need == filterBoolean(split(e, " "))
       IN  IF f = << >> \/ e = << >> THEN FALSE
           ELSE \A k \in 1..Len(need) : includes(f, need[k])

acceptHit(meta, expectCity, expectState) ==
  IF Truthy(expectState) /\ ~inUS(meta.country_code) THEN FALSE
  ELSE IF ~sameState(meta.state, meta.state_code, expectState) THEN FALSE
  ELSE IF ~cityTokensMatch(meta.city, expectCity) THEN FALSE
  ELSE TRUE

(* ------------------------------------------------------------------ *)
(* Precision checks and labels per provider                             *)
(* ------------------------------------------------------------------ *)
isPreciseGeoapify(f) ==
  \/ f.result_type \in {"amenity", "building", "house", "street"}
  \/ f.rank_house_number
  \/ f.rank_street

labelGeoapify(f) ==
  Or(f.formatted,
     join(filterBoolean(<< f.name, f.street, f.city, f.state >>), <<",", " ">>))

isPreciseMapbox(f) ==
  "poi" \in f.place_type \/ "address" \in f.place_type \/ "street" \in f.place_type

labelMapbox(f) == OrEmpty(f.place_name)

isPreciseGoogle(r) ==
  \/ "establishment" \in r.types
  \/ "point_of_interest" \in r.types
  \/ "street_address" \in r.types
  \/ "route" \in r.types
  \/ "premise" \in r.types

labelGoogle(r) == Or(r.formatted_address, OrEmpty(r.name))

isPreciseNominatim(f) ==
  \/ f.class = "amenity"
  \/ f.addresstype \in {"house", "building", "road"}
  \/ f.type \in {"house", "building", "restaurant", "fuel", "pub", "convenience"}

labelNominatim(f) == OrEmpty(f.display_name)

(* ------------------------------------------------------------------ *)
(* parseGoogleFormattedAddress                                          *)
(* ------------------------------------------------------------------ *)
\* region.match(/\b([A-Z]{2})\b/): the positions where a two-letter
\* upper-case word starts
StateCodePositions(region) ==
  { i \in 1..(Len(region) - 1) :
      /\ IsUpper(region[i]) /\ IsUpper(region[i + 1])
      /\ (i = 1 \/ ~IsWordChar(region[i - 1]))
      /\ (i + 2 > Len(region) \/ ~IsWordChar(region[i + 2])) }

Min(S) == CHOOSE x \in S : \A y \in S : x <= y

\* parts[k] of a JavaScript array: undefined outside 0..length-1 (k is 1-based here)
At(parts, k) == IF k >= 1 /\ k <= Len(parts) THEN parts[k] ELSE Undef

parseGoogleFormattedAddress(addr) ==
  IF ~Truthy(addr)
  THEN [city |-> Undef, state |-> Undef, state_code |-> Undef, country_code |-> Undef]
  ELSE LET raw    == split(addr, ",")
           parts  == Map(raw, trim)
           n      == Len(parts)
           last   == toLowerCase(parts[n])
           cc     == IF last = <<"c","a","n","a","d","a">> THEN <<"c","a">>
                     ELSE IF \/ includes(last, <<"u","s","a">>)
                             \/ last = <<"u","s">>
                             \/ last = <<"u","n","i","t","e","d"," ","s","t","a","t","e","s">>
                          THEN <<"u","s">>
                          ELSE Undef
           region == OrEmpty(At(parts, n - 1))
           pos    == StateCodePositions(region)
           code   == IF pos = {} THEN Undef
                     ELSE SubSeq(region, Min(pos), Min(pos) + 1)
       IN  IF n >= 2
           THEN [city         |-> Or(At(parts, n - 2), At(parts, n - 1)),
                 state        |-> IF code = Undef THEN Undef ELSE Or(US_STATES(code), code),
                 state_code   |-> code,
                 country_code |-> cc]
           ELSE [city |-> Undef, state |-> Undef, state_code |-> Undef, country_code |-> cc]

(* ------------------------------------------------------------------ *)
(* Number(s) for the decimal strings Nominatim returns.                 *)
(* Coordinates are integers in units of 1e-5 degree; NaN stands for     *)
(* every non-finite or absent coordinate (undefined, NaN).              *)
(* ------------------------------------------------------------------ *)
NaN == 999999999
CoordScale == 5

DigitOf == << "0","1","2","3","4","5","6","7","8","9" >>
DigitVal(c) == CHOOSE d \in 0..9 : DigitOf[d + 1] = c

RECURSIVE DigitsVal(_, _)
DigitsVal(s, acc) == IF s = << >> THEN acc ELSE DigitsVal(Tail(s), 10 * acc + DigitVal(Head(s)))

RECURSIVE Pow10(_)
Pow10(n) == IF n = 0 THEN 1 ELSE 10 * Pow10(n - 1)

AllDigits(s) == \A i \in 1..Len(s) : IsDigit(s[i])

Number(s) ==
  IF s = Undef THEN NaN
  ELSE LET t     == trim(s)
           neg   == t # << >> /\ Head(t) = "-"
           u     == IF neg THEN Tail(t) ELSE t
           parts == split(u, ".")
           ip    == parts[1]
           fp    == IF Len(parts) = 2 THEN parts[2] ELSE << >>
           mag   == DigitsVal(ip, 0) * Pow10(CoordScale) + DigitsVal(fp, 0) * Pow10(CoordScale - Len(fp))
       IN  IF t = << >> THEN 0
           ELSE IF Len(parts) > 2 \/ ~AllDigits(ip) \/ ~AllDigits(fp)
                   \/ (ip = << >> /\ fp = << >>) \/ Len(fp) > CoordScale
                THEN NaN
                ELSE IF neg THEN 0 - mag ELSE mag

(* ------------------------------------------------------------------ *)
(* Provider payloads: the entries a provider may return.  Each entry    *)
(* carries the fields the adapters read.                                *)
(* ------------------------------------------------------------------ *)
sTroy      == <<"T","r","o","y">>
sNorthTroy == <<"N","o","r","t","h"," ","T","r","o","y">>
sNTroy     == <<"N"," ","T","r","o","y">>
sNY        == <<"N","Y">>
sny        == <<"n","y">>
sTX        == <<"T","X">>
sNewYork   == <<"N","e","w"," ","Y","o","r","k">>
sTexas     == <<"T","e","x","a","s">>
sOntario   == <<"O","n","t","a","r","i","o">>
sUs        == <<"u","s">>
sCa        == <<"c","a">>
sHall      == <<"H","a","l","l">>
\* a city field holding one space
sBlank     == <<" ">>

GoogleEntries ==
  << [types |-> {"establishment", "point_of_interest"},
      formatted_address |-> <<"H","a","l","l",","," ","T","r","o","y",","," ","N","Y"," ","1","2",","," ","U","S","A">>, name |-> sHall,
      lat |-> 4270000, lng |-> -7360000],
     [types |-> {"premise"},
      formatted_address |-> <<"H","a","l","l",","," ","T","r","o","y",","," ","T","X"," ","7","6",","," ","U","S","A">>, name |-> sHall,
      lat |-> 3120000, lng |-> -9710000],
     [types |-> {"locality", "political"},
      formatted_address |-> <<"T","r","o","y",","," ","N","Y",","," ","U","S","A">>, name |-> sTroy,
      lat |-> 4273000, lng |-> -7369000],
     [types |-> {"route"},
      formatted_address |-> Undef, name |-> sHall,
      lat |-> 4270004, lng |-> -7360004] >>

GeoapifyEntries ==
  << [result_type |-> "amenity", rank_house_number |-> FALSE, rank_street |-> FALSE,
      formatted |-> <<"H","a","l","l",","," ","T","r","o","y",","," ","N","Y"," ","1","2",","," ","U","S","A">>, name |-> sHall, street |-> Undef,
      city |-> sTroy, town |-> Undef, village |-> Undef, suburb |-> Undef,
      state |-> sNewYork, state_code |-> sNY, country_code |-> sUs,
      lat |-> 4270000, lon |-> -7360000],
     [result_type |-> "building", rank_house_number |-> TRUE, rank_street |-> TRUE,
      formatted |-> Undef, name |-> sHall, street |-> Undef,
      city |-> Undef, town |-> sTroy, village |-> Undef, suburb |-> Undef,
      state |-> sTexas, state_code |-> sTX, country_code |-> sUs,
      lat |-> 3120000, lon |-> -9710000],
     [result_type |-> "city", rank_house_number |-> FALSE, rank_street |-> FALSE,
      formatted |-> <<"T","r","o","y",","," ","N","Y",","," ","U","S","A">>, name |-> sTroy, street |-> Undef,
      city |-> sTroy, town |-> Undef, village |-> Undef, suburb |-> Undef,
      state |-> sNewYork, state_code |-> sNY, country_code |-> sUs,
      lat |-> 4273000, lon |-> -7369000],
     [result_type |-> "street", rank_house_number |-> FALSE, rank_street |-> TRUE,
      formatted |-> <<"H","a","l","l",","," ","N","o","r","t","h"," ","T","r","o","y">>, name |-> Undef, street |-> sHall,
      city |-> sNorthTroy, town |-> Undef, village |-> Undef, suburb |-> Undef,
      state |-> sNewYork, state_code |-> Undef, country_code |-> sUs,
      lat |-> 4280000, lon |-> -7370000] >>

MapboxEntries ==
  << [place_type |-> {"poi"}, place_name |-> <<"H","a","l","l",","," ","T","r","o","y",","," ","N","e","w"," ","Y","o","r","k">>,
      context |-> << [id |-> <<"p","l","a","c","e",".","1">>, text |-> sTroy, short_code |-> Undef],
                     [id |-> <<"r","e","g","i","o","n",".","1">>, text |-> sNewYork, short_code |-> <<"U","S","-","N","Y">>],
                     [id |-> <<"c","o","u","n","t","r","y",".","1">>, text |-> <<"U","S","A">>, short_code |-> sUs] >>,
      center |-> << -7360000, 4270000 >>],
     [place_type |-> {"address"}, place_name |-> <<"H","a","l","l",","," ","T","r","o","y",","," ","T","e","x","a","s">>,
      context |-> << [id |-> <<"p","l","a","c","e",".","2">>, text |-> sTroy, short_code |-> Undef],
                     [id |-> <<"r","e","g","i","o","n",".","2">>, text |-> sTexas, short_code |-> <<"U","S","-","T","X">>],
                     [id |-> <<"c","o","u","n","t","r","y",".","1">>, text |-> <<"U","S","A">>, short_code |-> <<"U","S">>] >>,
      center |-> << -9710000, 3120000 >>],
     [place_type |-> {"place"}, place_name |-> <<"T","r","o","y",","," ","N","e","w"," ","Y","o","r","k">>,
      context |-> << [id |-> <<"r","e","g","i","o","n",".","1">>, text |-> sNewYork, short_code |-> <<"U","S","-","N","Y">>],
                     [id |-> <<"c","o","u","n","t","r","y",".","1">>, text |-> <<"U","S","A">>, short_code |-> sUs] >>,
      center |-> << -7369000, 4273000 >>],
     [place_type |-> {"poi", "street"}, place_name |-> <<"H","a","l","l",","," ","N","o","r","t","h"," ","T","r","o","y">>,
      context |-> << [id |-> <<"p","l","a","c","e",".","3">>, text |-> sNorthTroy, short_code |-> Undef],
                     [id |-> <<"r","e","g","i","o","n",".","1">>, text |-> sNewYork, short_code |-> Undef],
                     [id |-> <<"c","o","u","n","t","r","y",".","1">>, text |-> <<"U","S","A">>, short_code |-> sUs] >>,
      center |-> << -7370000, 4280000 >>] >>

NominatimEntries ==
  << [class |-> "amenity", type |-> "townhall", addresstype |-> "amenity",
      display_name |-> <<"H","a","l","l",","," ","T","r","o","y",","," ","N","e","w"," ","Y","o","r","k">>,
      address |-> [city |-> sTroy, town |-> Undef, village |-> Undef, hamlet |-> Undef,
                   suburb |-> Undef, state |-> sNewYork, country_code |-> sUs],
      lat |-> <<"4","2",".","7">>, lon |-> <<"-","7","3",".","6">>],
     [class |-> "highway", type |-> "residential", addresstype |-> "road",
      display_name |-> <<"H","a","l","l",","," ","T","r","o","y",","," ","T","e","x","a","s">>,
      address |-> [city |-> Undef, town |-> sTroy, village |-> Undef, hamlet |-> Undef,
                   suburb |-> Undef, state |-> sTexas, country_code |-> <<"U","S">>],
      lat |-> <<"3","1",".","2">>, lon |-> <<"-","9","7",".","1">>],
     [class |-> "boundary", type |-> "administrative", addresstype |-> "city",
      display_name |-> <<"T","r","o","y",","," ","N","e","w"," ","Y","o","r","k">>,
      address |-> [city |-> sTroy, town |-> Undef, village |-> Undef, hamlet |-> Undef,
                   suburb |-> Undef, state |-> sNewYork, country_code |-> sUs],
      lat |-> <<"4","2",".","7","3">>, lon |-> <<"-","7","3",".","6","9">>],
     [class |-> "tourism", type |-> "pub", addresstype |-> "tourism",
      display_name |-> <<"H","a","l","l",","," ","T","r","o","y",","," ","O","n","t","a","r","i","o">>,
      address |-> [city |-> Undef, town |-> Undef, village |-> Undef, hamlet |-> sTroy,
                   suburb |-> Undef, state |-> sOntario, country_code |-> sCa],
      lat |-> <<"4","3",".","2">>, lon |-> <<"-","8","0",".","1">>] >>

(* ------------------------------------------------------------------ *)
(* HTTP responses of a provider.  kind is                               *)
(*   "throw"    fetch rejects (network failure)                         *)
(*   "nonok"    a response with r.ok false                              *)
(*   "badjson"  r.ok, but r.json() rejects                              *)
(*   "badshape" r.ok, valid JSON that is an object without the list     *)
(*   "json"     r.ok, the expected payload carrying the list body       *)
(* ------------------------------------------------------------------ *)
Null   == [tag |-> "null"]
\* a rejected promise: fetch rejects with the TypeError "fetch failed"
Thrown == [tag |-> "throw", message |-> "fetch failed"]
\* j.find / j.filter called on a JSON value that is not an array
NotAFunction(method) == [tag |-> "throw", message |-> method]

\* a findCandidates promise that resolved to list
Resolved(list) == [tag |-> "list", list |-> list]

Hit(provider, address_text, lat, lng, meta) ==
  [tag |-> "hit", provider |-> provider, address_text |-> address_text,
   lat |-> lat, lng |-> lng, meta |-> meta]

\* Array.prototype.find as the 1-based index of the first match, 0 when none
FirstIndex(list, P(_)) ==
  IF \E i \in 1..Len(list) : P(list[i])
  THEN Min({ i \in 1..Len(list) : P(list[i]) })
  ELSE 0

\* Array.prototype.filter
Filter(list, P(_)) ==
  LET keep == { i \in 1..Len(list) : P(list[i]) }
  IN  Arr([k \in 1..Cardinality(keep) |->
             list[CHOOSE i \in keep : Cardinality({ j \in keep : j < i }) = k - 1]])

\* Array.prototype.slice(0, n)
SliceTo(list, n) == SubSeq(list, 1, IF Len(list) < n THEN Len(list) ELSE n)

\* the list an adapter reads out of the response: j?.<field> || []
ListOf(r) == IF r.kind = "json" THEN r.body ELSE << >>

\* meta = { city: addr.city, state: addr.state, state_code: addr.state_code,
\*          country_code: addr.country_code }
GoogleMeta(c) == parseGoogleFormattedAddress(c.formatted_address)

\* ---- Google Places, Find Place ----
\* c = j?.candidates?.[0]; if (!c || !isPreciseGoogle(c)) return null
bestGoogleFindPlace(list) == IF list # << >> /\ isPreciseGoogle(list[1]) THEN 1 ELSE 0

fromGoogleFindPlace(r, q, expectCity, expectState) ==
  IF r.kind = "throw" THEN Thrown
  ELSE IF r.kind = "nonok" THEN Null
  ELSE LET list == ListOf(r)
           b    == bestGoogleFindPlace(list)
       IN  IF b = 0 THEN Null
           ELSE CHOOSE hit \in
                  { IF ~acceptHit(meta, expectCity, expectState) THEN Null
                    ELSE Hit("google_findplace",
                             Or(c.formatted_address, Or(c.name, q)), c.lat, c.lng, meta) :
                      c \in { list[b] }, meta \in { GoogleMeta(list[b]) } } : TRUE

GoogleCandidate(provider, c) ==
  CHOOSE cand \in
    { [provider |-> provider,
       label |-> Or(c.formatted_address, OrEmpty(c.name)),
       lat |-> c.lat, lng |-> c.lng,
       city |-> meta.city, state |-> meta.state,
       state_code |-> meta.state_code, country_code |-> meta.country_code] :
        meta \in { GoogleMeta(c) } } : TRUE

candidatesGoogleFindPlace(r) ==
  IF r.kind = "throw" THEN Thrown
  ELSE IF r.kind = "nonok" THEN Resolved(<< >>)
  ELSE LET list == SliceTo(ListOf(r), 5)
       IN  Resolved(Map(list, LAMBDA c : GoogleCandidate("google_findplace", c)))

\* ---- Google Text Search ----
fromGoogleText(r, q, expectCity, expectState) ==
  IF r.kind = "throw" THEN Thrown
  ELSE IF r.kind = "nonok" THEN Null
  ELSE LET list == ListOf(r)
           b    == FirstIndex(list, isPreciseGoogle)
       IN  IF b = 0 THEN Null
           ELSE CHOOSE hit \in
                  { IF ~acceptHit(meta, expectCity, expectState) THEN Null
                    ELSE Hit("google_text", labelGoogle(c), c.lat, c.lng, meta) :
                      c \in { list[b] }, meta \in { GoogleMeta(list[b]) } } : TRUE

candidatesGoogleText(r) ==
  IF r.kind = "throw" THEN Thrown
  ELSE IF r.kind = "nonok" THEN Resolved(<< >>)
  ELSE LET list == SliceTo(ListOf(r), 5)
       IN  Resolved(Map(list, LAMBDA c : GoogleCandidate("google_text", c)))

\* ---- Geoapify ----
GeoapifyMeta(f) ==
  [city |-> Or(f.city, Or(f.town, Or(f.village, f.suburb))),
   state |-> f.state, state_code |-> f.state_code, country_code |-> f.country_code]

fromGeoapify(r, q, expectCity, expectState) ==
  IF r.kind = "throw" THEN Thrown
  ELSE IF r.kind = "nonok" THEN Null
  ELSE LET list == ListOf(r)
           b    == FirstIndex(list, isPreciseGeoapify)
       IN  IF b = 0 THEN Null
           ELSE CHOOSE hit \in
                  { IF ~acceptHit(meta, expectCity, expectState) THEN Null
                    ELSE Hit("geoapify", labelGeoapify(best), best.lat, best.lon, meta) :
                      best \in { list[b] }, meta \in { GeoapifyMeta(list[b]) } } : TRUE

GeoapifyCandidate(f) ==
  [provider |-> "geoapify", label |-> labelGeoapify(f),
   lat |-> f.lat, lng |-> f.lon,
   city |-> GeoapifyMeta(f).city, state |-> f.state,
   state_code |-> f.state_code, country_code |-> f.country_code]

candidatesGeoapify(r) ==
  IF r.kind = "throw" THEN Thrown
  ELSE IF r.kind = "nonok" THEN Resolved(<< >>)
  ELSE LET list == Filter(ListOf(r), isPreciseGeoapify)
       IN  Resolved(Map(list, GeoapifyCandidate))

\* ---- Mapbox ----
\* c?.short_code?.split('-')[1]?.toUpperCase()
MapboxStateCode(short_code) ==
  IF short_code = Undef THEN Undef
  ELSE LET p == split(short_code, "-")
       IN  IF Len(p) >= 2 THEN toUpperCase(p[2]) ELSE Undef

\* the loop over best.context: a later context item overwrites an earlier one
RECURSIVE MapboxContext(_, _)
MapboxContext(ctx, acc) ==
  IF ctx = << >> THEN acc
  ELSE LET c  == Head(ctx)
           id == OrEmpty(c.id)
           a1 == IF startsWith(id, <<"p","l","a","c","e">>) THEN [acc EXCEPT !.city = c.text] ELSE acc
           a2 == IF startsWith(id, <<"r","e","g","i","o","n">>)
                 THEN [a1 EXCEPT !.state = c.text, !.state_code = MapboxStateCode(c.short_code)]
                 ELSE a1
           a3 == IF startsWith(id, <<"c","o","u","n","t","r","y">>)
                 THEN [a2 EXCEPT !.country_code = toLowerCase(OrEmpty(c.short_code))]
                 ELSE a2
       IN  MapboxContext(Tail(ctx), a3)

MapboxMeta(f) ==
  MapboxContext(f.context,
                [city |-> Undef, state |-> Undef, state_code |-> Undef, country_code |-> Undef])

\* const [lng, lat] = f?.center || []
CenterLng(f) == IF Len(f.center) >= 1 THEN f.center[1] ELSE NaN
CenterLat(f) == IF Len(f.center) >= 2 THEN f.center[2] ELSE NaN

fromMapbox(r, q, expectCity, expectState) ==
  IF r.kind = "throw" THEN Thrown
  ELSE IF r.kind = "nonok" THEN Null
  ELSE LET list == ListOf(r)
           b    == FirstIndex(list, isPreciseMapbox)
       IN  IF b = 0 THEN Null
           ELSE CHOOSE hit \in
                  { IF ~acceptHit(meta, expectCity, expectState) THEN Null
                    ELSE Hit("mapbox", labelMapbox(best),
                             CenterLat(best), CenterLng(best), meta) :
                      best \in { list[b] }, meta \in { MapboxMeta(list[b]) } } : TRUE

MapboxCandidate(f) ==
  CHOOSE cand \in
    { [provider |-> "mapbox", label |-> labelMapbox(f),
       lat |-> CenterLat(f), lng |-> CenterLng(f),
       city |-> meta.city, state |-> meta.state,
       state_code |-> meta.state_code, country_code |-> meta.country_code] :
        meta \in { MapboxMeta(f) } } : TRUE

candidatesMapbox(r) ==
  IF r.kind = "throw" THEN Thrown
  ELSE IF r.kind = "nonok" THEN Resolved(<< >>)
  ELSE LET list == Filter(ListOf(r), isPreciseMapbox)
       IN  Resolved(Map(list, MapboxCandidate))

\* ---- Nominatim ----
\* j is used as an array without a guard: a JSON value that is not an array
\* makes j.find / j.filter throw a TypeError
NominatimMeta(f) ==
  LET addr == f.address
  IN  [city |-> Or(addr.city, Or(addr.town, Or(addr.village, Or(addr.hamlet, addr.suburb)))),
       state |-> addr.state,
       state_code |-> STATE_NAMES_TO_CODE(toLowerCase(OrEmpty(addr.state))),
       country_code |-> toLowerCase(OrEmpty(addr.country_code))]

\* fromNominatim without the guard if (!r.ok) return null: the body of an
\* error response is not the array j.find needs
fromNominatimNoOkGuard(r, q, expectCity, expectState) ==
  IF r.kind = "throw" THEN Thrown
  ELSE IF r.kind = "nonok" THEN NotAFunction("j.find is not a function")
  ELSE IF r.kind = "badshape" THEN NotAFunction("j.find is not a function")
  ELSE LET list == ListOf(r)
           b    == FirstIndex(list, isPreciseNominatim)
       IN  IF b = 0 THEN Null
           ELSE CHOOSE hit \in
                  { IF ~acceptHit(meta, expectCity, expectState) THEN Null
                    ELSE Hit("nominatim", labelNominatim(best),
                             Number(best.lat), Number(best.lon), meta) :
                      best \in { list[b] }, meta \in { NominatimMeta(list[b]) } } : TRUE

fromNominatim(r, q, expectCity, expectState) ==
  IF r.kind = "throw" THEN Thrown
  ELSE IF r.kind = "nonok" THEN Null
  ELSE IF r.kind = "badshape" THEN NotAFunction("j.find is not a function")
  ELSE LET list == ListOf(r)
           b    == FirstIndex(list, isPreciseNominatim)
       IN  IF b = 0 THEN Null
           ELSE CHOOSE hit \in
                  { IF ~acceptHit(meta, expectCity, expectState) THEN Null
                    ELSE Hit("nominatim", labelNominatim(best),
                             Number(best.lat), Number(best.lon), meta) :
                      best \in { list[b] }, meta \in { NominatimMeta(list[b]) } } : TRUE

NominatimCandidate(f) ==
  CHOOSE cand \in
    { [provider |-> "nominatim", label |-> labelNominatim(f),
       lat |-> Number(f.lat), lng |-> Number(f.lon),
       city |-> meta.city, state |-> f.address.state,
       state_code |-> meta.state_code, country_code |-> meta.country_code] :
        meta \in { NominatimMeta(f) } } : TRUE

candidatesNominatim(r) ==
  IF r.kind = "throw" THEN Thrown
  ELSE IF r.kind = "nonok" THEN Resolved(<< >>)
  ELSE IF r.kind = "badshape" THEN NotAFunction("j.filter is not a function")
  ELSE LET list == Filter(ListOf(r), isPreciseNominatim)
       IN  Resolved(Map(list, NominatimCandidate))

(* ------------------------------------------------------------------ *)
(* Candidate aggregator                                                 *)
(* ------------------------------------------------------------------ *)
RECURSIVE Flat(_)
Flat(buckets) == IF buckets = << >> THEN << >> ELSE Head(buckets) \o Flat(Tail(buckets))

BaseScore == 100
StateCodeBoost == 30
StateNameBoost == 20
CityBoost == 20

\* buckets.flat().map((c, i) => ({ ...c, score: 100 - i }))
WithBaseScore(list) ==
  Arr([k \in 1..Len(list) |-> [c |-> list[k], score |-> BaseScore - (k - 1)]])

\* the scoring without its two region increments
BoostCityOnly(c, expectCity, expectState) ==
  LET cityWanted == norm(expectCity)
  IN  IF Truthy(c.city) /\ cityWanted # << >> /\ includes(norm(c.city), cityWanted)
      THEN CityBoost ELSE 0

Boost(c, expectCity, expectState) ==
  LET cityWanted  == norm(expectCity)
      stateWanted == toUpperCase(OrEmpty(expectState))
  IN  (IF Truthy(c.state_code) /\ stateWanted # << >>
          /\ toUpperCase(c.state_code) = stateWanted THEN StateCodeBoost ELSE 0)
    + (IF Truthy(c.state) /\ stateWanted # << >>
          /\ norm(c.state) = norm(Or(US_STATES(stateWanted), c.state)) THEN StateNameBoost ELSE 0)
    + (IF Truthy(c.city) /\ cityWanted # << >>
          /\ includes(norm(c.city), cityWanted) THEN CityBoost ELSE 0)

\* Array.prototype.sort((a, b) => b.score - a.score): stable, descending
\* an unstable sort: an element is placed before the elements of equal score
RECURSIVE InsertByScoreUnstable(_, _)
InsertByScoreUnstable(sorted, e) ==
  IF sorted = << >> THEN << e >>
  ELSE IF Head(sorted).score > e.score
       THEN << Head(sorted) >> \o InsertByScoreUnstable(Tail(sorted), e)
       ELSE << e >> \o sorted

RECURSIVE InsertByScore(_, _)
InsertByScore(sorted, e) ==
  IF sorted = << >> THEN << e >>
  ELSE IF Head(sorted).score >= e.score
       THEN << Head(sorted) >> \o InsertByScore(Tail(sorted), e)
       ELSE << e >> \o sorted
\* the loop running over all instead of all.sort(...)
SortByScoreUnsorted(list, acc) == acc \o list

RECURSIVE SortByScore(_, _)
SortByScore(list, acc) ==
  IF list = << >> THEN acc ELSE SortByScore(Tail(list), InsertByScore(acc, Head(list)))

\* Math.round(v * 1e4) for a coordinate in units of 1e-5 degree
Round4(v) == IF v = NaN THEN NaN ELSE (v + 5) \div 10

DedupKey(c) == << norm(c.label), Round4(c.lat), Round4(c.lng) >>

\* the loop without seen.add(key): no key is ever found in seen
DedupeNeverSeen(list, seen, out) == out \o list

RECURSIVE Dedupe(_, _, _)
Dedupe(list, seen, out) ==
  IF list = << >> THEN out
  ELSE IF DedupKey(Head(list).c) \in seen THEN Dedupe(Tail(list), seen, out)
  ELSE Dedupe(Tail(list), seen \cup { DedupKey(Head(list).c) }, Append(out, Head(list)))

\* the filter with a callback that keeps every candidate
KeepAnyCountry(e) == TRUE

KeepUS(e) == inUS(e.c.country_code)

\* the aggregation with the cap applied to the sorted list, before the
\* duplicates are dropped
gatherCandidatesCapsFirst(buckets, expectCity, expectState) ==
  LET all0 == WithBaseScore(Flat(buckets))
      all1 == IF Truthy(expectState) THEN Filter(all0, KeepUS) ELSE all0
      all2 == Map(all1, LAMBDA e : [e EXCEPT !.score = @ + Boost(e.c, expectCity, expectState)])
  IN  Dedupe(SliceTo(SortByScore(all2, << >>), 8), {}, << >>)

gatherCandidates(buckets, expectCity, expectState) ==
  LET all0 == WithBaseScore(Flat(buckets))
      all1 == IF Truthy(expectState) THEN Filter(all0, KeepUS) ELSE all0
      all2 == Map(all1, LAMBDA e : [e EXCEPT !.score = @ + Boost(e.c, expectCity, expectState)])
  IN  Dedupe(SortByScore(all2, << >>), {}, << >>)

MaxReturned == 8

(* ------------------------------------------------------------------ *)
(* Bounds and inputs                                                    *)
(* ------------------------------------------------------------------ *)
\* most entries in one provider payload
MaxEntries == 2
\* most candidates the five providers contribute to one candidate request
MaxGathered == 2

\* the adapters in the order the handler names them
Adapters == 1..5
AdapterName == << "google_findplace", "geoapify", "mapbox", "google_text", "nominatim" >>

\* process.env name each adapter reads; Nominatim reads none
KeyOf == << "GOOGLE_MAPS_API_KEY", "GEOAPIFY_API_KEY", "MAPBOX_TOKEN",
            "GOOGLE_MAPS_API_KEY", "none" >>
EnvKeys == { "GOOGLE_MAPS_API_KEY", "GEOAPIFY_API_KEY", "MAPBOX_TOKEN" }
\* the deployments explored: no credential, Google only, all but Google, all
Environments ==
  { {}, { "GOOGLE_MAPS_API_KEY" }, { "GEOAPIFY_API_KEY", "MAPBOX_TOKEN" }, EnvKeys }

EntriesOf(i) ==
  IF i \in {1, 4} THEN GoogleEntries
  ELSE IF i = 2 THEN GeoapifyEntries
  ELSE IF i = 3 THEN MapboxEntries
  ELSE NominatimEntries

SeqsUpTo(S, n) == UNION { [1..k -> S] : k \in 0..n }

PayloadsOf(i) ==
  LET E == EntriesOf(i)
  IN  { Arr([k \in 1..Len(ix) |-> E[ix[k]]]) : ix \in SeqsUpTo(1..Len(E), MaxEntries) }

ResponsesOf(i) ==
  { [kind |-> k, body |-> << >>] : k \in {"throw", "nonok", "badjson", "badshape"} }
    \cup { [kind |-> "json", body |-> b] : b \in PayloadsOf(i) }

\* the responses each provider may send, per adapter
ResponseTable ==
  << ResponsesOf(1), ResponsesOf(2), ResponsesOf(3), ResponsesOf(4), ResponsesOf(5) >>
Responses(i) == ResponseTable[i]

NoMeta == [city |-> Undef, state |-> Undef, state_code |-> Undef, country_code |-> Undef]
\* what an adapter read from its response: the kind of response, whether it
\* selected an entry, the meta built from that entry, whether an entry of the
\* response passes the adapter's precision test, and the meta of the first
\* such entry
NoResponse ==
  [kind |-> "none", found |-> FALSE, meta |-> NoMeta, precise |-> FALSE, preciseMeta |-> NoMeta]

\* request bodies: q absent, empty, blank, or a place name with spaces around it
Queries == { Undef, << >>, << " ", "\t" >>, << " ", "H", "a", "l", "l", " " >> }
\* the caller's locality expectations (expectCity, expectState)
Expectations ==
  { << Undef, Undef >>, << sTroy, sNY >>, << sNTroy, sny >>,
    << Undef, sNewYork >>, << sTroy, Undef >>, << sBlank, Undef >> }

\* a body req.json() cannot parse
Malformed ==
  [parses |-> FALSE, q |-> Undef, candidates |-> FALSE, expectCity |-> Undef, expectState |-> Undef]

Requests ==
  { Malformed } \cup
  { [parses |-> TRUE, q |-> q, candidates |-> c, expectCity |-> e[1], expectState |-> e[2]] :
      q \in Queries, c \in BOOLEAN, e \in Expectations }

(* ------------------------------------------------------------------ *)
(* State                                                                *)
(* ------------------------------------------------------------------ *)
VARIABLES
  req,        \* the body of the request being handled
  env,        \* the credentials present in process.env
  pc,         \* "recv", "strict", "gather" or "done"
  idx,        \* strict mode: the adapter the || chain has reached (0 outside it)
  inflight,   \* adapters whose fetch has been issued and has not settled
  invoked,    \* the adapters called so far, in call order
  fetches,    \* fetches[i]: HTTP requests adapter i has issued
  ret,        \* what each adapter's promise settled with
  results,    \* candidate mode: the list each adapter's promise resolved to
  settled,    \* candidate mode: adapters whose promise has resolved
  observed,   \* strict mode: what each adapter read from its response
  caught,     \* the adapter whose exception reached the catch block (0: none)
  response,   \* the HTTP response of the handler
  members,    \* the rows of the members table
  joins       \* joins[j]: the /api/members/join request j, where it stands

vars == << req, env, pc, idx, inflight, invoked, fetches, ret, results, settled,
           observed, caught, response, members, joins >>

\* the geocode handler's variables and those of the join handler
geocodeVars == << req, pc, idx, inflight, invoked, fetches, ret, results, settled,
                  observed, caught, response >>

\* the join requests in progress at the same time
MaxJoins == 2
Joiners == 1..MaxJoins
\* no join request
NotJoining == [at |-> "none", body |-> "none", row |-> "null", status |-> 0, where |-> ""]

NotCalled == [tag |-> "notcalled"]
Pending   == [tag |-> "pending"]
NoReply   == [status |-> 0, kind |-> "none", error |-> "", hit |-> Null, candidates |-> << >>]

\* err(message, status)
ErrReply(message, status) ==
  [status |-> status, kind |-> "error", error |-> message, hit |-> Null, candidates |-> << >>]
\* ok(hit) and ok({ candidates })
HitReply(h) ==
  [status |-> 200, kind |-> "hit", error |-> "", hit |-> h, candidates |-> << >>]
ListReply(list) ==
  [status |-> 200, kind |-> "candidates", error |-> "", hit |-> Null, candidates |-> list]

\* e?.message || String(e) when req.json() rejects: the parser's message
Failure == "Unexpected end of JSON input"

\* every adapter taken to have its credential
HasKeyAlways(i) == TRUE

\* if (!key) return null / return []: adapter i has its credential, or needs none
HasKey(i) == KeyOf[i] = "none" \/ KeyOf[i] \in env

\* q.trim() of the request
Text == trim(req.q)

\* the validation without q.trim(): only an absent or empty q is refused
MissingQNoTrim == ~Truthy(req.q)

\* !q || !q.trim()
MissingQ == ~Truthy(req.q) \/ Text = << >>

Init ==
  /\ req \in Requests
  /\ env \in Environments
  /\ pc = "recv"
  /\ idx = 0
  /\ inflight = {}
  /\ invoked = << >>
  /\ fetches = [i \in Adapters |-> 0]
  /\ ret = [i \in Adapters |-> NotCalled]
  /\ results = [i \in Adapters |-> << >>]
  /\ settled = {}
  /\ observed = [i \in Adapters |-> NoResponse]
  /\ caught = 0
  /\ response = NoReply
  /\ members = << >>
  /\ joins = [j \in Joiners |-> NotJoining]

(* ------------------------------------------------------------------ *)
(* POST handler                                                         *)
(* ------------------------------------------------------------------ *)
\* the entry the strict adapter i selects from list (0: none) and its meta
BestIndex(i, list) ==
  IF i = 1 THEN bestGoogleFindPlace(list)
  ELSE IF i = 2 THEN FirstIndex(list, isPreciseGeoapify)
  ELSE IF i = 3 THEN FirstIndex(list, isPreciseMapbox)
  ELSE IF i = 4 THEN FirstIndex(list, isPreciseGoogle)
  ELSE FirstIndex(list, isPreciseNominatim)

MetaOf(i, e) ==
  IF i \in {1, 4} THEN GoogleMeta(e)
  ELSE IF i = 2 THEN GeoapifyMeta(e)
  ELSE IF i = 3 THEN MapboxMeta(e)
  ELSE NominatimMeta(e)

\* the first entry of list that passes adapter i's precision test (0: none)
FirstPrecise(i, list) ==
  IF i \in {1, 4} THEN FirstIndex(list, isPreciseGoogle)
  ELSE IF i = 2 THEN FirstIndex(list, isPreciseGeoapify)
  ELSE IF i = 3 THEN FirstIndex(list, isPreciseMapbox)
  ELSE FirstIndex(list, isPreciseNominatim)

Seen(i, r) ==
  LET b == BestIndex(i, ListOf(r))
  IN  [kind  |-> r.kind,
       found |-> b # 0,
       meta  |-> IF b = 0 THEN NoMeta ELSE MetaOf(i, ListOf(r)[b]),
       precise |-> FirstPrecise(i, ListOf(r)) # 0,
       preciseMeta |-> IF FirstPrecise(i, ListOf(r)) = 0 THEN NoMeta
                       ELSE MetaOf(i, ListOf(r)[FirstPrecise(i, ListOf(r))])]

\* per request (q, (expectCity, expectState)): what the promise of each strict
\* adapter can settle with, over the responses its provider may send, each
\* with what the adapter read from the response
StrictKeys ==
  { k \in Queries \X Expectations : Truthy(k[1]) /\ trim(k[1]) # << >> }
StrictOutcomeTable ==
  UNION { { << k,
       << { << fromGoogleFindPlace(r, q, ec, es), Seen(1, r) >> : r \in Responses(1) },
          { << fromGeoapify(r, q, ec, es), Seen(2, r) >> : r \in Responses(2) },
          { << fromMapbox(r, q, ec, es), Seen(3, r) >> : r \in Responses(3) },
          { << fromGoogleText(r, q, ec, es), Seen(4, r) >> : r \in Responses(4) },
          { << fromNominatim(r, q, ec, es), Seen(5, r) >> : r \in Responses(5) } >> >> :
      q \in { trim(k[1]) }, ec \in { k[2][1] }, es \in { k[2][2] } } : k \in StrictKeys }
StrictOutcomes(i) ==
  LET key == << req.q, << req.expectCity, req.expectState >> >>
  IN  (CHOOSE row \in StrictOutcomeTable : row[1] = key)[2][i]

\* what the promise of candidates adapter i can settle with, over the
\* responses its provider may send
CandOutcomeTable ==
  << { candidatesGoogleFindPlace(r) : r \in Responses(1) },
     { candidatesGeoapify(r) : r \in Responses(2) },
     { candidatesMapbox(r) : r \in Responses(3) },
     { candidatesGoogleText(r) : r \in Responses(4) },
     { candidatesNominatim(r) : r \in Responses(5) } >>
CandOutcomes(i) == CandOutcomeTable[i]

\* req.json() rejects: the catch block answers 500
RecvMalformed ==
  /\ pc = "recv"
  /\ ~req.parses
  /\ pc' = "done"
  /\ response' = ErrReply(Failure, 500)
  /\ UNCHANGED << req, env, idx, inflight, invoked, fetches, ret, results, settled,
                  observed, caught >>
  /\ UNCHANGED << members, joins >>

\* if (!q || !q.trim()) return err('Missing q', 400)
RecvMissingQ ==
  /\ pc = "recv"
  /\ req.parses
  /\ MissingQ
  /\ pc' = "done"
  /\ response' = ErrReply("Missing q", 400)
  /\ UNCHANGED << req, env, idx, inflight, invoked, fetches, ret, results, settled,
                  observed, caught >>
  /\ UNCHANGED << members, joins >>

\* strict mode entered with the chain starting at its second operand
RecvStrictSkipsFirst ==
  /\ pc = "recv"
  /\ req.parses
  /\ ~MissingQ
  /\ ~req.candidates
  /\ pc' = "strict"
  /\ idx' = 2
  /\ UNCHANGED << req, env, inflight, invoked, fetches, ret, results, settled,
                  observed, caught, response >>
  /\ UNCHANGED << members, joins >>

\* strict mode is entered: the || chain starts at its first operand
RecvStrict ==
  /\ pc = "recv"
  /\ req.parses
  /\ ~MissingQ
  /\ ~req.candidates
  /\ pc' = "strict"
  /\ idx' = 1
  /\ UNCHANGED << req, env, inflight, invoked, fetches, ret, results, settled,
                  observed, caught, response >>
  /\ UNCHANGED << members, joins >>

\* the chain with | in place of ||: every operand is evaluated and the hit of
\* the last one is the reply
ChainAfterNoShortCircuit(i, v) ==
  IF v.tag = "throw"
  THEN pc' = "done" /\ idx' = 0 /\ response' = ErrReply(v.message, 500) /\ caught' = i
  ELSE IF i = 5 /\ v.tag = "hit"
  THEN pc' = "done" /\ idx' = 0 /\ response' = HitReply(v) /\ UNCHANGED caught
  ELSE IF i = 5
  THEN pc' = "done" /\ idx' = 0 /\ response' = ErrReply("No precise match found in specified city/state", 404)
       /\ UNCHANGED caught
  ELSE pc' = "strict" /\ idx' = i + 1 /\ UNCHANGED << response, caught >>

\* the chain without its last operand: 404 once the fourth adapter has no hit
ChainAfterStopsAtFour(i, v) ==
  IF v.tag = "throw"
  THEN pc' = "done" /\ idx' = 0 /\ response' = ErrReply(v.message, 500) /\ caught' = i
  ELSE IF v.tag = "hit"
  THEN pc' = "done" /\ idx' = 0 /\ response' = HitReply(v) /\ UNCHANGED caught
  ELSE IF i >= 4
  THEN pc' = "done" /\ idx' = 0 /\ response' = ErrReply("No precise match found in specified city/state", 404)
       /\ UNCHANGED caught
  ELSE pc' = "strict" /\ idx' = i + 1 /\ UNCHANGED << response, caught >>

\* the chain with each operand wrapped in a catch that yields null
ChainAfterSwallows(i, v) ==
  IF v.tag = "hit"
  THEN pc' = "done" /\ idx' = 0 /\ response' = HitReply(v) /\ UNCHANGED caught
  ELSE IF i = 5
  THEN pc' = "done" /\ idx' = 0 /\ response' = ErrReply("No precise match found in specified city/state", 404)
       /\ UNCHANGED caught
  ELSE pc' = "strict" /\ idx' = i + 1 /\ UNCHANGED << response, caught >>

\* the chain never answering once the last adapter has no hit
ChainAfterHangs(i, v) ==
  IF v.tag = "throw"
  THEN pc' = "done" /\ idx' = 0 /\ response' = ErrReply(v.message, 500) /\ caught' = i
  ELSE IF v.tag = "hit"
  THEN pc' = "done" /\ idx' = 0 /\ response' = HitReply(v) /\ UNCHANGED caught
  ELSE pc' = "strict" /\ idx' = i + 1 /\ UNCHANGED << response, caught >>

\* what the chain does once adapter i has resolved to v
ChainAfter(i, v) ==
  IF v.tag = "throw"
  THEN pc' = "done" /\ idx' = 0 /\ response' = ErrReply(v.message, 500) /\ caught' = i
  ELSE IF v.tag = "hit"
  THEN pc' = "done" /\ idx' = 0 /\ response' = HitReply(v) /\ UNCHANGED caught
  ELSE IF i = 5
  THEN pc' = "done" /\ idx' = 0 /\ response' = ErrReply("No precise match found in specified city/state", 404)
       /\ UNCHANGED caught
  ELSE pc' = "strict" /\ idx' = i + 1 /\ UNCHANGED << response, caught >>

\* the chain calling adapter idx and moving on without awaiting its promise
StrictCallNoAwait ==
  /\ pc = "strict"
  /\ idx \in Adapters
  /\ ret[idx] = NotCalled
  /\ invoked' = Append(invoked, idx)
  /\ IF HasKey(idx)
     THEN /\ inflight' = inflight \cup {idx}
          /\ fetches' = [fetches EXCEPT ![idx] = @ + 1]
          /\ ret' = [ret EXCEPT ![idx] = Pending]
          /\ idx' = IF idx < 5 THEN idx + 1 ELSE idx
          /\ UNCHANGED << pc, response, caught >>
     ELSE /\ ret' = [ret EXCEPT ![idx] = Null]
          /\ ChainAfter(idx, Null)
          /\ UNCHANGED << inflight, fetches >>
  /\ UNCHANGED << req, env, results, settled, observed >>
  /\ UNCHANGED << members, joins >>

\* the chain calls adapter idx; without its credential the adapter returns
\* null at once, otherwise it issues its one fetch and the chain awaits it
StrictCall ==
  /\ pc = "strict"
  /\ idx \in Adapters
  /\ ret[idx] = NotCalled
  /\ invoked' = Append(invoked, idx)
  /\ IF HasKey(idx)
     THEN /\ inflight' = inflight \cup {idx}
          /\ fetches' = [fetches EXCEPT ![idx] = @ + 1]
          /\ ret' = [ret EXCEPT ![idx] = Pending]
          /\ UNCHANGED << pc, idx, response, caught >>
     ELSE /\ ret' = [ret EXCEPT ![idx] = Null]
          /\ ChainAfter(idx, Null)
          /\ UNCHANGED << inflight, fetches >>
  /\ UNCHANGED << req, env, results, settled, observed >>
  /\ UNCHANGED << members, joins >>

\* the adapter fetching a second time after a non-success status
StrictSettleRetries ==
  /\ pc = "strict"
  /\ idx \in inflight
  /\ \E o \in StrictOutcomes(idx) :
       IF o[2].kind = "nonok" /\ fetches[idx] < 2
       THEN /\ fetches' = [fetches EXCEPT ![idx] = @ + 1]
            /\ UNCHANGED << ret, observed, pc, idx, response, caught, inflight >>
       ELSE /\ ret' = [ret EXCEPT ![idx] = o[1]]
            /\ observed' = [observed EXCEPT ![idx] = o[2]]
            /\ ChainAfter(idx, o[1])
            /\ inflight' = inflight \ {idx}
            /\ UNCHANGED fetches
  /\ UNCHANGED << req, env, invoked, results, settled >>
  /\ UNCHANGED << members, joins >>

\* the awaited fetch settles with response r and the adapter runs to its end
StrictSettle ==
  /\ pc = "strict"
  /\ idx \in inflight
  /\ \E o \in StrictOutcomes(idx) :
       /\ ret' = [ret EXCEPT ![idx] = o[1]]
       /\ observed' = [observed EXCEPT ![idx] = o[2]]
       /\ ChainAfter(idx, o[1])
  /\ inflight' = inflight \ {idx}
  /\ UNCHANGED << req, env, invoked, fetches, results, settled >>
  /\ UNCHANGED << members, joins >>

(* ------------------------------------------------------------------ *)
(* Candidate mode                                                       *)
(* ------------------------------------------------------------------ *)
RECURSIVE TotalLen(_)
TotalLen(bs) == IF bs = << >> THEN 0 ELSE Len(Head(bs)) + TotalLen(Tail(bs))

\* the reply without the test of list.length: an empty list is answered 200
GatherReplyNoEmptyTest(bs) ==
  ListReply(SliceTo(gatherCandidates(bs, req.expectCity, req.expectState), MaxReturned))

\* the reply once Promise.all has resolved to the five lists bs
GatherReply(bs) ==
  LET list == gatherCandidates(bs, req.expectCity, req.expectState)
  IN  IF list = << >> THEN ErrReply("No candidates", 404)
      ELSE ListReply(SliceTo(list, MaxReturned))

\* candidate mode is entered: the array literal handed to Promise.all calls
\* the five adapters in order; each issues its fetch unless its credential
\* is absent, in which case its promise resolves to []
RecvCandidates ==
  /\ pc = "recv"
  /\ req.parses
  /\ ~MissingQ
  /\ req.candidates
  /\ pc' = "gather"
  /\ invoked' = << 1, 2, 3, 4, 5 >>
  /\ inflight' = { i \in Adapters : HasKey(i) }
  /\ fetches' = [i \in Adapters |-> IF HasKey(i) THEN 1 ELSE 0]
  /\ settled' = { i \in Adapters : ~HasKey(i) }
  /\ UNCHANGED << req, env, idx, ret, results, observed, caught, response >>
  /\ UNCHANGED << members, joins >>

\* Promise.race in place of Promise.all: the aggregation runs as soon as one
\* of the promises has resolved
CandSettleFirstWins(i) ==
  /\ pc = "gather"
  /\ i \in inflight
  /\ \E v \in CandOutcomes(i) :
       /\ ret' = [ret EXCEPT ![i] = v]
       /\ IF v.tag = "throw"
          THEN /\ UNCHANGED << results, settled >>
               /\ pc' = "done"
               /\ caught' = i
               /\ response' = ErrReply(v.message, 500)
          ELSE /\ TotalLen(results) + Len(v.list) <= MaxGathered
               /\ settled' = settled \cup {i}
               /\ UNCHANGED caught
               /\ pc' = "done"
               /\ \E lists \in { [results EXCEPT ![i] = v.list] } :
                    results' = lists /\ response' = GatherReply(lists)
  /\ inflight' = inflight \ {i}
  /\ UNCHANGED << req, env, idx, invoked, fetches, observed >>
  /\ UNCHANGED << members, joins >>

\* one of the outstanding fetches settles while Promise.all is pending.  A
\* rejection rejects Promise.all at once and the catch block answers 500;
\* the last resolution lets gatherCandidates run to its end.
CandSettle(i) ==
  /\ pc = "gather"
  /\ i \in inflight
  /\ \/ \E v \in CandOutcomes(i) :
          /\ v.tag = "throw"
          /\ ret' = [ret EXCEPT ![i] = v]
          /\ UNCHANGED << results, settled >>
          /\ pc' = "done"
          /\ caught' = i
          /\ response' = ErrReply(v.message, 500)
     \/ \E v \in CandOutcomes(i) :
          /\ v.tag # "throw"
          /\ ret' = [ret EXCEPT ![i] = v]
          /\ TotalLen(results) + Len(v.list) <= MaxGathered
          /\ settled' = settled \cup {i}
          /\ UNCHANGED caught
          /\ \E lists \in { [results EXCEPT ![i] = v.list] } :
               /\ results' = lists
               /\ IF settled \cup {i} = Adapters
                  THEN pc' = "done" /\ response' = GatherReply(lists)
                  ELSE UNCHANGED << pc, response >>
  /\ inflight' = inflight \ {i}
  /\ UNCHANGED << req, env, idx, invoked, fetches, observed >>
  /\ UNCHANGED << members, joins >>

\* a fetch that fails after Promise.all has rejected: the adapter's promise
\* rejects, the reply has been sent and nothing reads the outcome.  A promise
\* that resolves after the rejection reads and writes nothing the rejection
\* touched, so the two steps commute: the state it leads to is the state
\* CandSettle reaches when that promise resolves first, and the orders in
\* which CandSettle fires cover it.
LateSettle(i) ==
  /\ pc = "done"
  /\ i \in inflight
  /\ \E v \in CandOutcomes(i) :
       /\ v.tag = "throw"
       /\ ret' = [ret EXCEPT ![i] = v]
  /\ inflight' = inflight \ {i}
  /\ UNCHANGED << req, env, pc, idx, invoked, fetches, results, settled, observed,
                  caught, response >>
  /\ UNCHANGED << members, joins >>

Next ==
  \/ RecvMalformed
  \/ RecvMissingQ
  \/ RecvStrict
  \/ StrictCall
  \/ StrictSettle
  \/ RecvCandidates
  \/ \E i \in Adapters : CandSettle(i)
  \/ \E i \in Adapters : LateSettle(i)

Spec == Init /\ [][Next]_vars

\* the handler's own steps: each runs as soon as the event loop reaches it
HandlerStep == RecvMalformed \/ RecvMissingQ \/ RecvStrict \/ RecvCandidates \/ StrictCall

\* a provider call that is awaited returns or throws
AwaitedSettle == StrictSettle \/ \E i \in Adapters : CandSettle(i)

\* the requests followed to their answer: a body that does not parse, q
\* absent or blank, and a place name in either mode
LiveRequests ==
  { r \in Requests :
      \/ ~r.parses
      \/ /\ r.q \in { Undef, << " ", "\t" >> }
         /\ ~r.candidates
         /\ r.expectCity = Undef
      \/ /\ r.q = << " ", "H", "a", "l", "l", " " >>
         /\ << r.expectCity, r.expectState >> \in { << Undef, Undef >>, << sTroy, sNY >> } }

LiveInit == Init /\ req \in LiveRequests

\* the same system where the runtime keeps running the handler and every
\* provider call that is awaited eventually returns or throws
LiveSpec ==
  /\ LiveInit
  /\ [][Next]_vars
  /\ WF_vars(HandlerStep)
  /\ WF_vars(AwaitedSettle)

(* ------------------------------------------------------------------ *)
(* Candidate mode with every provider answering: each provider serves  *)
(* the first entries of its feed, so that one request gathers enough   *)
(* candidates for duplicates, equal scores and the cap to occur.       *)
(* ------------------------------------------------------------------ *)
\* most entries a provider serves
MaxFeed == 3
FeedLengths == { 0, 1, MaxFeed }

\* a Google result without address, name or geometry
GoogleBare ==
  [types |-> {"route"}, formatted_address |-> Undef, name |-> Undef, lat |-> NaN, lng |-> NaN]

\* the Texas feature with a region that carries no short_code
MapboxNoCode ==
  [MapboxEntries[2] EXCEPT !.context[2].short_code = Undef]

\* a New York amenity whose address names no city
NominatimNoCity ==
  [NominatimEntries[1] EXCEPT
     !.display_name = <<"H","a","l","l",","," ","N","e","w"," ","Y","o","r","k">>,
     !.address.city = Undef,
     !.lat = <<"4","2",".","9">>, !.lon = <<"-","7","3",".","9">>]

GoogleFindPlaceFeed == << GoogleEntries[2], GoogleEntries[1], GoogleBare, GoogleEntries[4] >>
GeoapifyFeed == << GeoapifyEntries[4], GeoapifyEntries[2], GeoapifyEntries[1], GeoapifyEntries[3] >>
MapboxFeed == << MapboxEntries[4], MapboxNoCode, MapboxEntries[1], MapboxEntries[3] >>
GoogleTextFeed == << GoogleEntries[1], GoogleEntries[2], GoogleEntries[4], GoogleEntries[3] >>
NominatimFeed == << NominatimEntries[4], NominatimNoCity, NominatimEntries[2], NominatimEntries[3] >>

\* the 200 responses a provider may send: the first n entries of its feed
Served(feed) ==
  { [kind |-> "json", body |-> SliceTo(feed, n)] : n \in FeedLengths }

\* the list the promise of each candidates adapter can resolve to
GatherOutcomeTable ==
  << { candidatesGoogleFindPlace(r).list : r \in Served(GoogleFindPlaceFeed) },
     { candidatesGeoapify(r).list : r \in Served(GeoapifyFeed) },
     { candidatesMapbox(r).list : r \in Served(MapboxFeed) },
     { candidatesGoogleText(r).list : r \in Served(GoogleTextFeed) },
     { candidatesNominatim(r).list : r \in Served(NominatimFeed) } >>
GatherOutcomes(i) == GatherOutcomeTable[i]

GatherExpectations ==
  Expectations \cup { << Undef, sNY >>, << Undef, sTX >> }

\* a candidate-mode request with every credential configured
GatherInit ==
  /\ req \in { [parses |-> TRUE, q |-> << " ", "H", "a", "l", "l", " " >>, candidates |-> TRUE,
                expectCity |-> e[1], expectState |-> e[2]] : e \in GatherExpectations }
  /\ env = EnvKeys
  /\ pc = "recv"
  /\ idx = 0
  /\ inflight = {}
  /\ invoked = << >>
  /\ fetches = [i \in Adapters |-> 0]
  /\ ret = [i \in Adapters |-> NotCalled]
  /\ results = [i \in Adapters |-> << >>]
  /\ settled = {}
  /\ observed = [i \in Adapters |-> NoResponse]
  /\ caught = 0
  /\ response = NoReply
  /\ members = << >>
  /\ joins = [j \in Joiners |-> NotJoining]

\* the five fetches resolve, Promise.all resolves to the five lists,
\* gatherCandidates runs to its end and POST replies
AllSettle ==
  /\ pc = "gather"
  /\ inflight = Adapters
  /\ \E b1 \in GatherOutcomes(1), b2 \in GatherOutcomes(2), b3 \in GatherOutcomes(3),
        b4 \in GatherOutcomes(4), b5 \in GatherOutcomes(5) :
       /\ results' = << b1, b2, b3, b4, b5 >>
       /\ ret' = << Resolved(b1), Resolved(b2), Resolved(b3), Resolved(b4), Resolved(b5) >>
  /\ settled' = Adapters
  /\ inflight' = {}
  /\ pc' = "done"
  /\ response' = GatherReply(results')
  /\ UNCHANGED << req, env, idx, invoked, fetches, observed, caught >>
  /\ UNCHANGED << members, joins >>

GatherNext ==
  \/ RecvCandidates
  \/ AllSettle

GatherSpec == GatherInit /\ [][GatherNext]_vars

(* ------------------------------------------------------------------ *)
(* Properties of the handler                                            *)
(* ------------------------------------------------------------------ *)
\* a well-formed strict-mode request
Strict == req.parses /\ ~req.candidates

\* the first k adapters in priority order
FirstAdapters(k) == SubSeq(<< 1, 2, 3, 4, 5 >>, 1, k)

\* q is absent, empty or made of white space only
BlankQ == req.q = Undef \/ \A k \in 1..Len(req.q) : IsSpace(req.q[k])

\* the region of meta is the region R, by code whatever the case or by full
\* name once both are normalised
RegionMatches(meta, R) ==
  \/ /\ Truthy(meta.state_code)
     /\ toUpperCase(meta.state_code) = toUpperCase(R)
  \/ /\ Truthy(meta.state)
     /\ norm(meta.state) = norm(Or(US_STATES(toUpperCase(R)), R))

\* every word of the normalised city C occurs in the normalised city of meta
CityTokensIn(meta, C) ==
  LET need == split(norm(C), " ")
  IN  /\ norm(meta.city) # << >>
      /\ \A k \in 1..Len(need) : need[k] = << >> \/ includes(norm(meta.city), need[k])

\* C1: strict mode short-circuit.  When adapter k returns an accepted hit,
\* exactly the adapters 1..k have been invoked, in that order, and no adapter
\* after k is called, fetches or is in flight, in that state or any later one.
C1_StrictShortCircuit ==
  Strict =>
    \A k \in Adapters :
      ret[k].tag = "hit" =>
        /\ invoked = FirstAdapters(k)
        /\ \A j \in Adapters :
             j > k => ret[j] = NotCalled /\ fetches[j] = 0 /\ j \notin inflight

\* the third adapter returned the hit after the first two were invoked
C1_Witness ==
  /\ Strict
  /\ pc = "done"
  /\ ret[3].tag = "hit"
  /\ invoked = << 1, 2, 3 >>

\* C2: strict mode priority winner.  The hit of a 200 strict reply is the one
\* adapter k produced from a precise entry the locality filter accepted, it
\* carries that adapter's provider name, and every adapter before k in the
\* fixed order was tried and returned no hit.
C2_StrictPriorityWinner ==
  (Strict /\ response.kind = "hit") =>
    \E k \in Adapters :
      /\ ret[k].tag = "hit"
      /\ response = HitReply(ret[k])
      /\ response.hit.provider = AdapterName[k]
      /\ observed[k].found
      /\ acceptHit(observed[k].meta, req.expectCity, req.expectState)
      /\ response.hit.meta = observed[k].meta
      /\ \A i \in 1..(k - 1) : ret[i] = Null

\* Mapbox wins after Google Find Place and Geoapify both answered without a hit
C2_Witness ==
  /\ Strict
  /\ response.kind = "hit"
  /\ response.hit.provider = "mapbox"
  /\ fetches[1] = 1 /\ fetches[2] = 1
  /\ ret[1] = Null /\ ret[2] = Null

\* C3: strict mode is sequential.  At most one adapter call is in flight, and
\* adapter i+1 has been started only if adapter i completed with no hit.
C3_StrictSequential ==
  Strict =>
    /\ Cardinality(inflight) <= 1
    /\ \A i \in 1..4 : ret[i + 1] # NotCalled => ret[i] = Null
    /\ \A i \in inflight : ret[i] = Pending /\ idx = i

\* the third adapter is in flight after the second fetched and found no hit
C3_Witness ==
  /\ Strict
  /\ inflight = {3}
  /\ fetches[2] = 1
  /\ ret[2] = Null

\* C4: strict mode locality enforcement.  With an expected region, a hit that
\* is returned lies in that region and in the US, and an adapter whose
\* precise entry lies in another region returns no hit, so that the chain
\* goes on to the next adapter.
C4_StrictLocality ==
  (Strict /\ Truthy(req.expectState)) =>
    /\ response.kind = "hit" =>
         /\ RegionMatches(response.hit.meta, req.expectState)
         /\ inUS(response.hit.meta.country_code)
    /\ \A k \in Adapters :
         (observed[k].found /\ ~RegionMatches(observed[k].meta, req.expectState)) =>
           /\ ret[k] = Null
           /\ k < 5 => (ret[k + 1] # NotCalled \/ (pc = "strict" /\ idx = k + 1))

\* Google Find Place found a precise place in TX, NY was expected, and the
\* reply is Geoapify's hit in NY
C4_Witness ==
  /\ Strict
  /\ req.expectState = sNY
  /\ observed[1].found
  /\ observed[1].meta.state_code = sTX
  /\ response.kind = "hit"
  /\ response.hit.provider = "geoapify"
  /\ response.hit.meta.state_code = sNY

\* C5 as stated: a strict hit for expectCity C and expectState R has a
\* normalised meta.city that contains the normalised C and a meta.state_code
\* equal to R.
C5_CityContainsAndCodeEquals ==
  (Strict /\ response.kind = "hit" /\ Truthy(req.expectCity) /\ Truthy(req.expectState)) =>
    /\ includes(norm(response.hit.meta.city), norm(req.expectCity))
    /\ response.hit.meta.state_code = req.expectState

\* C5, amended: a strict hit for expectCity C and expectState R has a
\* normalised meta.city in which every word of the normalised C occurs, and a
\* region that matches R by code, whatever the case, or by normalised full name.
C5_CityTokensAndRegion ==
  (Strict /\ response.kind = "hit" /\ Truthy(req.expectCity) /\ Truthy(req.expectState)) =>
    /\ CityTokensIn(response.hit.meta, req.expectCity)
    /\ RegionMatches(response.hit.meta, req.expectState)

\* "N Troy", "ny" is answered with a place in North Troy, New York
C5_Witness ==
  /\ Strict
  /\ req.expectCity = sNTroy
  /\ req.expectState = sny
  /\ response.kind = "hit"
  /\ response.hit.meta.city = sNorthTroy

\* C6: validation.  A request whose q is absent, empty or white space only is
\* answered 400 with the error "Missing q", in strict and in candidate mode,
\* and no adapter is invoked and no fetch issued for it.
C6_MissingQ ==
  (req.parses /\ BlankQ) =>
    /\ invoked = << >>
    /\ inflight = {}
    /\ \A i \in Adapters : fetches[i] = 0 /\ ret[i] = NotCalled
    /\ pc \in { "recv", "done" }
    /\ pc = "done" =>
         /\ response.status = 400
         /\ response.kind = "error"
         /\ response.error = "Missing q"

\* a candidate-mode request with a white-space q has been answered 400
C6_Witness ==
  /\ req.parses
  /\ req.candidates
  /\ req.q = << " ", "\t" >>
  /\ pc = "done"
  /\ response.status = 400

\* C7: strict mode not found.  Once every adapter has completed without a
\* hit the reply is 404, and a strict 404 is sent only after all five
\* adapters were tried, in order, and none returned a hit.
C7_StrictNotFound ==
  Strict =>
    /\ (\A i \in Adapters : ret[i] = Null) =>
         pc = "done" /\ response.status = 404 /\ response.kind = "error"
    /\ response.status = 404 =>
         /\ invoked = << 1, 2, 3, 4, 5 >>
         /\ \A i \in Adapters : ret[i] = Null

\* all five adapters fetched, none had a hit, the reply is 404
C7_Witness ==
  /\ Strict
  /\ \A i \in Adapters : fetches[i] = 1
  /\ response.status = 404

\* C8: an adapter whose HTTP response has a non-success status returns no
\* hit and the chain goes on to the next adapter; when all five responses
\* are non-success the reply is 404.
C8_NonSuccessIsNoHit ==
  Strict =>
    /\ \A i \in Adapters :
         observed[i].kind = "nonok" =>
           /\ ret[i] = Null
           /\ i < 5 => (ret[i + 1] # NotCalled \/ (pc = "strict" /\ idx = i + 1))
    /\ (\A i \in Adapters : observed[i].kind = "nonok") =>
         pc = "done" /\ response.status = 404

\* all five providers answered with a non-success status
C8_Witness ==
  /\ Strict
  /\ \A i \in Adapters : observed[i].kind = "nonok"
  /\ response.status = 404

\* C9 as stated: in candidate mode a failing adapter contributes an empty
\* list and the request is not aborted: a well-formed candidate request with
\* a q is never answered 500.
C9_CandidateIsolation ==
  (req.parses /\ req.candidates /\ ~BlankQ) => response.status # 500

\* C10: strict-mode transport exception.  When the fetch of adapter i throws,
\* the adapter's promise rejects, the reply is 500 and carries no hit, and no
\* adapter after i is invoked.
C10_StrictTransportException ==
  Strict =>
    \A i \in Adapters :
      observed[i].kind = "throw" =>
        /\ ret[i] = Thrown
        /\ pc = "done"
        /\ caught = i
        /\ response.status = 500 /\ response.kind = "error" /\ response.hit = Null
        /\ invoked = FirstAdapters(i)
        /\ \A j \in Adapters : j > i => ret[j] = NotCalled /\ fetches[j] = 0

\* Geoapify's fetch threw after Google Find Place had fetched and found no hit
C10_Witness ==
  /\ Strict
  /\ fetches[1] = 1
  /\ ret[1] = Null
  /\ observed[2].kind = "throw"
  /\ response.status = 500

(* ------------------------------------------------------------------ *)
(* Properties of candidate mode                                        *)
(* ------------------------------------------------------------------ *)
\* a candidate-mode request whose aggregation ran to its end
Gathered == pc = "done" /\ req.parses /\ req.candidates /\ ~BlankQ /\ caught = 0

\* the candidates the five adapters resolved to, in provider priority order
Flattened == Flat(results)

\* the country restriction: US only, and only when a region is expected
CountryKept(c) ==
  Truthy(req.expectState) => toLowerCase(OrEmpty(c.country_code)) \in { <<"u","s">>, <<"u","s","a">> }

\* C11: a candidate-mode request whose aggregation ran answers 404 "No
\* candidates" exactly when no gathered candidate is left after the country
\* restriction (deduplication never empties a list), and otherwise 200 with a
\* non-empty candidates array.
C11_CandidateNotFound ==
  Gathered =>
    /\ response.status \in { 200, 404 }
    /\ (response.status = 404) <=> (\A k \in 1..Len(Flattened) : ~CountryKept(Flattened[k]))
    /\ (response.status = 404) => response = ErrReply("No candidates", 404)
    /\ (response.status = 200) => (response.kind = "candidates" /\ response.candidates # << >>)

\* candidates were gathered, every one of them outside the expected country: 404
C11_Witness ==
  /\ Gathered
  /\ Flattened # << >>
  /\ response.status = 404

\* the candidates array of a 200 candidate-mode reply
Returned == IF Gathered /\ response.kind = "candidates" THEN response.candidates ELSE << >>

\* C12: no two entries of a returned candidate list share the dedup key
\* (normalised label, lat and lng each rounded to 4 decimal places), whatever
\* the five adapters returned.
C12_DedupInvariant ==
  \A i \in 1..Len(Returned) : \A j \in 1..Len(Returned) :
    i # j => DedupKey(Returned[i].c) # DedupKey(Returned[j].c)

\* two providers returned candidates with one dedup key, both within the
\* country restriction, and the list was returned
C12_Witness ==
  /\ Returned # << >>
  /\ \E i \in 1..Len(Flattened) : \E j \in 1..Len(Flattened) :
       /\ i < j
       /\ Flattened[i].provider # Flattened[j].provider
       /\ CountryKept(Flattened[i]) /\ CountryKept(Flattened[j])
       /\ DedupKey(Flattened[i]) = DedupKey(Flattened[j])

\* the positions of the flattened list the country restriction keeps
KeptPositions == { k \in 1..Len(Flattened) : CountryKept(Flattened[k]) }

\* the score gatherCandidates gives the candidate at position k
ScoreAt(k) == BaseScore - (k - 1) + Boost(Flattened[k], req.expectCity, req.expectState)

\* the kept positions holding a candidate with the dedup key of c
SharingKey(c) == { k \in KeptPositions : DedupKey(Flattened[k]) = DedupKey(c) }

\* C13: every returned entry is one of the scored candidates with its dedup
\* key and carries the maximum score among all scored candidates sharing that
\* key; a key is missing from the returned list only when the list is full.
C13_DedupKeepsBest ==
  Returned # << >> =>
    /\ \A i \in 1..Len(Returned) :
         /\ \E k \in SharingKey(Returned[i].c) :
              Flattened[k] = Returned[i].c /\ ScoreAt(k) = Returned[i].score
         /\ \A k \in SharingKey(Returned[i].c) : ScoreAt(k) <= Returned[i].score
    /\ \A k \in KeptPositions :
         \/ Len(Returned) = MaxReturned
         \/ \E i \in 1..Len(Returned) : DedupKey(Returned[i].c) = DedupKey(Flattened[k])

\* the entry kept for a key comes later in provider order than a candidate
\* with the same key and a lower score
C13_Witness ==
  \E i \in 1..Len(Returned) : \E j \in KeptPositions : \E k \in KeptPositions :
    /\ k < j
    /\ Flattened[j] = Returned[i].c
    /\ DedupKey(Flattened[k]) = DedupKey(Flattened[j])
    /\ ScoreAt(k) < ScoreAt(j)
    /\ ScoreAt(j) = Returned[i].score

\* the position in the flattened list of a returned entry
PositionOf(e) ==
  CHOOSE k \in KeptPositions : Flattened[k] = e.c /\ ScoreAt(k) = e.score

\* C14: a returned candidate list is sorted by non-increasing score, and two
\* entries of equal score appear in the order in which they were flattened
\* from the adapters' lists.
C14_Ordering ==
  \A i \in 1..Len(Returned) : \A j \in 1..Len(Returned) :
    i < j =>
      /\ Returned[i].score >= Returned[j].score
      /\ Returned[i].score = Returned[j].score =>
           PositionOf(Returned[i]) < PositionOf(Returned[j])

\* two returned entries have the same final score, and an entry with a
\* higher score was flattened after one with a lower score
C14_Witness ==
  /\ \E i \in 1..Len(Returned) : \E j \in 1..Len(Returned) :
       i < j /\ Returned[i].score = Returned[j].score
  /\ \E i \in 1..Len(Returned) : \E j \in 1..Len(Returned) :
       i < j /\ Returned[i].score > Returned[j].score
             /\ PositionOf(Returned[i]) > PositionOf(Returned[j])

\* the kept positions whose dedup key no returned entry carries
LeftOut ==
  { k \in KeptPositions :
      \A i \in 1..Len(Returned) : DedupKey(Returned[i].c) # DedupKey(Flattened[k]) }

\* C15: a returned candidate list has at most 8 entries; a candidate is left
\* out with its dedup key only when the list holds 8 entries, each of which
\* ranks above it (a higher score, or an equal score and an earlier position).
C15_Cap ==
  Returned # << >> =>
    /\ Len(Returned) <= 8
    /\ \A k \in LeftOut :
         /\ Len(Returned) = 8
         /\ \A i \in 1..Len(Returned) :
              \/ ScoreAt(k) < Returned[i].score
              \/ ScoreAt(k) = Returned[i].score /\ PositionOf(Returned[i]) < k

\* more than 8 candidates are left after deduplication, some of the first 8
\* sorted candidates being duplicates
C15_Witness ==
  /\ Len(Returned) = 8
  /\ LeftOut # {}
  /\ \E j \in KeptPositions : \E k \in KeptPositions :
       j # k /\ DedupKey(Flattened[j]) = DedupKey(Flattened[k])
             /\ \A i \in 1..Len(Returned) : ScoreAt(j) >= Returned[i].score

IsUSCode(code) == toLowerCase(OrEmpty(code)) \in { <<"u","s">>, <<"u","s","a">> }

\* C16: with a region expected, every returned candidate has the country code
\* of the US; with no region expected, no gathered candidate is missing from
\* the reply on account of its country: each one's dedup key is returned
\* unless the list is full.
C16_CountryRestriction ==
  /\ Truthy(req.expectState) =>
       \A i \in 1..Len(Returned) : IsUSCode(Returned[i].c.country_code)
  /\ (Gathered /\ ~Truthy(req.expectState)) =>
       \A k \in 1..Len(Flattened) :
         \/ Len(Returned) = 8
         \/ \E i \in 1..Len(Returned) : DedupKey(Returned[i].c) = DedupKey(Flattened[k])

\* a region is expected, a provider returned a candidate outside the US and
\* another one inside it, and a list was returned
C16_Witness ==
  /\ Truthy(req.expectState)
  /\ Returned # << >>
  /\ \E k \in 1..Len(Flattened) :
       Truthy(Flattened[k].country_code) /\ ~IsUSCode(Flattened[k].country_code)

\* the increments the scoring rule as stated gives candidate c: 30 for a region
\* matching the expected one by code or by full name, 20 for a city holding
\* every word of the expected city
StatedBoost(c) ==
    (IF Truthy(req.expectState) /\ RegionMatches(c, req.expectState) THEN 30 ELSE 0)
  + (IF Truthy(req.expectCity) /\ CityTokensIn(c, req.expectCity) THEN 20 ELSE 0)

\* C17: the final score of every returned candidate is its provider-priority
\* base score (100 less its position in the flattened list) plus 30 if and
\* only if its region matches the expected region by code or by full name,
\* plus 20 if and only if every word of the expected city occurs in its city,
\* and nothing else.
C17_ScoringAsStated ==
  \A i \in 1..Len(Returned) :
    \E k \in 1..Len(Flattened) :
      /\ Flattened[k] = Returned[i].c
      /\ Returned[i].score = 100 - (k - 1) + StatedBoost(Returned[i].c)

\* candidate mode with a two-letter region code expected and no city expected
RegionOnly ==
  Gathered /\ ~Truthy(req.expectCity) /\ Truthy(req.expectState) /\ Len(req.expectState) = 2

\* provider a returned exactly one match, in the expected region of the US,
\* provider b exactly one match in another region, the other providers none
ScenarioD(a, b) ==
  /\ a # b
  /\ Len(results[a]) = 1 /\ Len(results[b]) = 1
  /\ \A o \in Adapters \ { a, b } : results[o] = << >>
  /\ RegionMatches(results[a][1], req.expectState)
  /\ IsUSCode(results[a][1].country_code)
  /\ ~RegionMatches(results[b][1], req.expectState)

\* C18: in candidate mode with region code R expected and no city expected,
\* when one provider returns a match in R and another provider a match in a
\* different region, the match in R is returned and ranked above the other
\* match, whichever of the two providers comes first in priority order.
C18_RegionRankedFirst ==
  RegionOnly =>
    \A a \in Adapters : \A b \in Adapters :
      ScenarioD(a, b) =>
        \E i \in 1..Len(Returned) :
          /\ Returned[i].c = results[a][1]
          /\ \A j \in 1..Len(Returned) : Returned[j].c = results[b][1] => i < j

\* the match in R comes from the provider of lower priority, and both matches
\* are returned
C18_Witness ==
  /\ RegionOnly
  /\ \E a \in Adapters : \E b \in Adapters :
       /\ ScenarioD(a, b)
       /\ b < a
       /\ Len(Returned) = 2

\* every word of the normalised expected city C is a substring of the
\* normalised city of meta
EveryTokenIn(meta, C) ==
  LET need == split(norm(C), " ")
  IN  \A k \in 1..Len(need) : need[k] = << >> \/ includes(norm(meta.city), need[k])

\* the three conditions of the locality filter; an absent expectation field
\* imposes nothing
Accepts(meta) ==
  /\ Truthy(req.expectState) => IsUSCode(meta.country_code)
  /\ Truthy(req.expectState) => RegionMatches(meta, req.expectState)
  /\ Truthy(req.expectCity) => EveryTokenIn(meta, req.expectCity)

\* C19: a strict adapter that found a precise entry returns it (acceptHit is
\* true) if and only if the entry's country is the US when a region is
\* expected, its region matches the expected one by code (case-insensitive)
\* or by normalised full name, and every word of the normalised expected city
\* is a substring of its normalised city.
C19_AcceptIff ==
  Strict =>
    \A i \in Adapters :
      (observed[i].kind = "json" /\ observed[i].found) =>
        (ret[i].tag = "hit" <=> Accepts(observed[i].meta))

\* C20: every Hit of strict mode and every Candidate of candidate mode has a
\* finite lat within [-90, 90], a finite lng within [-180, 180] (in units of
\* 1e-5 degree) and a non-empty label.
C20_WellFormed ==
  /\ response.kind = "hit" =>
       /\ response.hit.lat # NaN /\ response.hit.lng # NaN
       /\ response.hit.lat >= -9000000 /\ response.hit.lat <= 9000000
       /\ response.hit.lng >= -18000000 /\ response.hit.lng <= 18000000
       /\ response.hit.address_text # << >>
  /\ \A i \in 1..Len(Returned) :
       /\ Returned[i].c.lat # NaN /\ Returned[i].c.lng # NaN
       /\ Returned[i].c.lat >= -9000000 /\ Returned[i].c.lat <= 9000000
       /\ Returned[i].c.lng >= -18000000 /\ Returned[i].c.lng <= 18000000
       /\ Returned[i].c.label # << >>

(* ------------------------------------------------------------------ *)
(* Properties of both modes                                            *)
(* ------------------------------------------------------------------ *)
\* the adapters whose promise rejected
Rejected == { i \in Adapters : ret[i].tag = "throw" }

\* the adapters whose promise settled with a hit or a rejection
Decisive == { i \in Adapters : ret[i].tag \in { "hit", "throw" } }

\* the reply as a function of the request and of what each adapter's promise
\* settled with, the adapters being read in priority order
ReplyInPriorityOrder ==
  IF req.candidates
  THEN IF Rejected # {} THEN ErrReply(ret[Min(Rejected)].message, 500)
       ELSE GatherReply(results)
  ELSE IF Decisive = {}
       THEN ErrReply("No precise match found in specified city/state", 404)
       ELSE IF ret[Min(Decisive)].tag = "hit" THEN HitReply(ret[Min(Decisive)])
       ELSE ErrReply(ret[Min(Decisive)].message, 500)

\* C21: determinism.  Once every adapter call of a request has settled, the
\* reply (status and body) is the one fixed by the request and by what the
\* adapters settled with, whatever the order in which the concurrent calls
\* completed.
C21_Determinism ==
  (pc = "done" /\ req.parses /\ ~BlankQ /\ inflight = {}) =>
    response = ReplyInPriorityOrder

(* ------------------------------------------------------------------ *)
(* The report form: the query the client builds and the text the       *)
(* handler passes to the adapters                                       *)
(* ------------------------------------------------------------------ *)
\* const q = [addressText, city, stateCode].filter(Boolean).join(', ')
FormQuery(form) ==
  join(filterBoolean(<< form.addressText, form.city, form.stateCode >>), << ",", " " >>)

sMainSt == << "1", " ", "M", "a", "i", "n", " ", "S", "t", ",", " ", "T", "r", "o", "y" >>
\* what the user typed in the address, city and state inputs
Forms ==
  { [addressText |-> a, city |-> c, stateCode |-> st] :
      a \in { << >>, sBlank, sHall, << " ", "H", "a", "l", "l", " " >>,
              << "H", "a", "l", "l", ",", " ", "T", "r", "o", "y" >>, sMainSt },
      c \in { << >>, sBlank, sTroy },
      st \in { << >>, sNY, sTX } }

ClientInit ==
  /\ req \in Forms
  /\ env = EnvKeys
  /\ pc = "form"
  /\ idx = 0
  /\ inflight = {}
  /\ invoked = << >>
  /\ fetches = [i \in Adapters |-> 0]
  /\ ret = [i \in Adapters |-> NotCalled]
  /\ results = [i \in Adapters |-> << >>]
  /\ settled = {}
  /\ observed = [i \in Adapters |-> NoResponse]
  /\ caught = 0
  /\ response = NoReply
  /\ members = << >>
  /\ joins = [j \in Joiners |-> NotJoining]

\* the Find Address button: nothing is sent for an empty query, otherwise the
\* strict request is posted
onFindAddress ==
  /\ pc = "form"
  /\ IF FormQuery(req) = << >>
     THEN pc' = "idle" /\ UNCHANGED req
     ELSE /\ pc' = "recv"
          /\ req' = [parses |-> TRUE, q |-> FormQuery(req), candidates |-> FALSE,
                     expectCity |-> req.city, expectState |-> req.stateCode]
  /\ UNCHANGED << env, idx, inflight, invoked, fetches, ret, results, settled,
                  observed, caught, response >>
  /\ UNCHANGED << members, joins >>

ClientNext ==
  \/ onFindAddress
  \/ RecvMissingQ
  \/ RecvStrict

ClientSpec == ClientInit /\ [][ClientNext]_vars

HasComma(s) == \E k \in 1..Len(s) : s[k] = ","

\* the raw text followed by the city/region context that was filled in
WithContext(form) ==
  join(filterBoolean(<< form.addressText, form.city, form.stateCode >>), << ",", " " >>)

\* C22: query normalisation.  When the request is posted, the text passed to
\* the providers is, up to the surrounding white space the handler trims,
\* the caller's raw text unmodified if that text contains a comma, and in
\* every case either the raw text unmodified (a text longer than the minimum
\* length) or the raw text with the city/region context appended (a shorter
\* text without a comma).
C22_QueryNormalisation ==
  [][ (pc = "form" /\ pc' = "recv") =>
        /\ HasComma(req.addressText) => Text' = trim(req.addressText)
        /\ Text' = trim(req.addressText)
             \/ (~HasComma(req.addressText) /\ Text' = trim(WithContext(req))) ]_vars

(* ------------------------------------------------------------------ *)
(* Properties of the adapters                                          *)
(* ------------------------------------------------------------------ *)
\* C23: findHit selection.  The entry a strict adapter builds its hit from
\* is the first entry of the provider's response that passes the adapter's
\* precision test: when the first entry is coarse and a later one precise,
\* the later one is selected.
C23_FirstPreciseEntry ==
  \A i \in Adapters :
    observed[i].kind = "json" =>
      /\ observed[i].found = observed[i].precise
      /\ observed[i].meta = observed[i].preciseMeta

\* adapter i's precision test
IsPreciseFor(i, e) ==
  IF i \in {1, 4} THEN isPreciseGoogle(e)
  ELSE IF i = 2 THEN isPreciseGeoapify(e)
  ELSE IF i = 3 THEN isPreciseMapbox(e)
  ELSE isPreciseNominatim(e)

\* the candidate adapter i builds from the provider entry e
CandidateFor(i, e) ==
  IF i \in {1, 4} THEN GoogleCandidate(AdapterName[i], e)
  ELSE IF i = 2 THEN GeoapifyCandidate(e)
  ELSE IF i = 3 THEN MapboxCandidate(e)
  ELSE NominatimCandidate(e)

\* C24: candidates are precise only.  Every candidate an adapter's
\* findCandidates emitted was built from a provider entry that passes that
\* adapter's precision test.
C24_CandidatesPrecise ==
  \A i \in Adapters :
    \A k \in 1..Len(results[i]) :
      \E n \in 1..Len(EntriesOf(i)) :
        /\ IsPreciseFor(i, EntriesOf(i)[n])
        /\ CandidateFor(i, EntriesOf(i)[n]) = results[i][k]

\* C25: an adapter failure is not fatal.  A provider payload that fails to
\* parse or has an unexpected shape is treated like no hit: the strict
\* adapter returns null and the chain advances, and no adapter's promise
\* rejects because of a payload (the only rejections are those of the fetch
\* itself), so that a payload never produces a 500.
C25_PayloadFailureNotFatal ==
  /\ \A i \in Adapters :
       observed[i].kind \in { "badjson", "badshape" } => ret[i] = Null
  /\ \A i \in Adapters : ret[i].tag = "throw" => ret[i] = Thrown

\* the number of times adapter i was invoked
Invocations(i) == Cardinality({ k \in 1..Len(invoked) : invoked[k] = i })

\* C26: no retries.  Within one request, in either mode, each adapter is
\* invoked at most once and issues at most one HTTP call.
C26_NoRetries ==
  \A i \in Adapters : Invocations(i) <= 1 /\ fetches[i] <= 1

\* a finished strict request in which the first provider answered with a
\* non-success status and the second with an unparsable body: each was
\* fetched once and the chain went on to the fifth adapter
C26_Witness ==
  /\ pc = "done"
  /\ Strict
  /\ observed[1].kind = "nonok"
  /\ observed[2].kind = "badjson"
  /\ Len(invoked) = 5
  /\ \A i \in Adapters : fetches[i] = 1

\* a candidate request was received
InCandidateMode == pc \in { "gather", "done" } /\ req.parses /\ req.candidates /\ ~BlankQ

\* C27: candidate-mode fan-out/fan-in.  All five findCandidates calls are
\* issued (each with its fetch, where it has a credential) before any of
\* them is awaited; a list is answered only once all five have completed;
\* and the answer is the aggregation of the five lists taken in adapter
\* order, whatever the order in which the calls completed.
C27_FanOutFanIn ==
  InCandidateMode =>
    /\ invoked = << 1, 2, 3, 4, 5 >>
    /\ \A i \in Adapters : fetches[i] = (IF HasKey(i) THEN 1 ELSE 0)
    /\ \A i \in Adapters : \A k \in 1..Len(results[i]) :
         results[i][k].provider = AdapterName[i]
    /\ response.status \in { 200, 404 } =>
         /\ settled = Adapters
         /\ inflight = {}
         /\ response = GatherReply(results)

\* a list answered after two providers each contributed a candidate
C27_Witness ==
  /\ InCandidateMode
  /\ response.kind = "candidates"
  /\ \E i, j \in Adapters : i < j /\ results[i] # << >> /\ results[j] # << >>

\* adapter i needs a credential that the deployment does not provide
LacksCredential(i) == KeyOf[i] # "none" /\ KeyOf[i] \notin env

\* C28: missing credential.  An adapter whose credential is absent issues no
\* HTTP request and behaves as no hit in strict mode (it returns null) and as
\* an empty list in candidate mode; the 500 reply is never caused by it.
C28_MissingCredential ==
  \A i \in Adapters :
    LacksCredential(i) =>
      /\ fetches[i] = 0
      /\ i \notin inflight
      /\ ret[i] \in { NotCalled, Null }
      /\ (Strict /\ Invocations(i) > 0) => ret[i] = Null
      /\ results[i] = << >>
      /\ InCandidateMode => i \in settled
      /\ caught # i

\* a strict request answered 200 by Nominatim in a deployment without any
\* credential: the four adapters before it were invoked and none fetched
C28_Witness ==
  /\ pc = "done"
  /\ Strict
  /\ \A i \in 1..4 : LacksCredential(i) /\ Invocations(i) = 1 /\ ret[i] = Null
  /\ response.status = 200
  /\ response.hit.provider = "nominatim"

(* ------------------------------------------------------------------ *)
(* Termination                                                         *)
(* ------------------------------------------------------------------ *)
\* the handler has answered: a status of the four, a strict 200 carrying one
\* hit and a candidate 200 carrying a list
Answered ==
  /\ pc = "done"
  /\ response.status \in { 200, 400, 404, 500 }
  /\ response.status = 200 =>
       IF req.candidates
       THEN response.kind = "candidates" /\ response.hit = Null
       ELSE response.kind = "hit" /\ response.hit.tag = "hit" /\ response.candidates = << >>

\* C29: response totality and liveness.  Provided every provider call
\* eventually returns or throws, every request is eventually answered, with
\* a status among 200, 400, 404 and 500 and, for a 200, one hit (strict) or
\* a candidate list (candidate mode); the answer, once given, is the only one.
C29_ResponseTotality ==
  /\ <>Answered
  /\ [](pc = "done" => Answered)
  /\ [][response # NoReply => response' = response]_vars

\* a strict request answered 200 with the hit of the fifth adapter, after
\* the four calls before it returned
C29_Witness ==
  /\ Answered
  /\ Strict
  /\ response.status = 200
  /\ Len(invoked) = 5
  /\ \A i \in 1..4 : fetches[i] = 1

(* ------------------------------------------------------------------ *)
(* POST /api/members/join: concurrent requests against the members     *)
(* table                                                                *)
(* ------------------------------------------------------------------ *)
SupabaseEnv == { "SUPABASE_URL", "SUPABASE_SECRET_KEY" }

\* request bodies: one that does not parse, one without room_id, one without
\* contact, and the same room with the same email and/or the same phone
JoinBody(parses, room_id, email, phone_e164) ==
  [parses |-> parses, room_id |-> room_id, email |-> email, phone_e164 |-> phone_e164]
JoinBodies ==
  { JoinBody(FALSE, "undefined", "undefined", "undefined"),
    JoinBody(TRUE, "undefined", "ann@example.org", "undefined"),
    JoinBody(TRUE, "room1", "undefined", "undefined"),
    JoinBody(TRUE, "room1", "ann@example.org", "undefined"),
    JoinBody(TRUE, "room1", "undefined", "+15551234567"),
    JoinBody(TRUE, "room1", "ann@example.org", "+15551234567") }

\* data: null of maybeSingle()
NoRow ==
  [id |-> 0, room_id |-> "null", email |-> "null", phone_e164 |-> "null",
   approved |-> FALSE, email_enabled |-> FALSE, sms_enabled |-> FALSE]

\* a ?? b
Nullish(a, b) == IF a \notin { "null", "undefined" } THEN a ELSE b

\* .eq("room_id", room_id).or("email.eq.<email>,phone_e164.eq.<phone>")
Matches(row, body) ==
  /\ row.room_id = body.room_id
  /\ \/ body.email # "undefined" /\ row.email = body.email
     \/ body.phone_e164 # "undefined" /\ row.phone_e164 = body.phone_e164

Matching(body) == { k \in 1..Len(members) : Matches(members[k], body) }

\* the object passed to update(), applied to the row the store holds
Updated(stored, row, body) ==
  [stored EXCEPT !.email = Nullish(row.email, Nullish(body.email, "null")),
                 !.phone_e164 = Nullish(row.phone_e164, Nullish(body.phone_e164, "null")),
                 !.approved = TRUE,
                 !.email_enabled = row.email_enabled,
                 !.sms_enabled = row.sms_enabled]

\* the object passed to insert(), with the id the store gives it
Inserted(body) ==
  [id |-> Len(members) + 1, room_id |-> body.room_id,
   email |-> Nullish(body.email, "null"), phone_e164 |-> Nullish(body.phone_e164, "null"),
   approved |-> TRUE,
   email_enabled |-> body.email # "undefined",
   sms_enabled |-> body.phone_e164 # "undefined"]

\* res(status, { ok, where, ... })
JoinDone(j, status, where) ==
  joins' = [joins EXCEPT ![j].at = "done", ![j].status = status, ![j].where = where]

JoinInit ==
  /\ req = Malformed
  /\ env \in { {}, { "SUPABASE_URL" }, SupabaseEnv }
  /\ pc = "idle"
  /\ idx = 0
  /\ inflight = {}
  /\ invoked = << >>
  /\ fetches = [i \in Adapters |-> 0]
  /\ ret = [i \in Adapters |-> NotCalled]
  /\ results = [i \in Adapters |-> << >>]
  /\ settled = {}
  /\ observed = [i \in Adapters |-> NoResponse]
  /\ caught = 0
  /\ response = NoReply
  /\ members = << >>
  /\ joins \in [Joiners -> { [NotJoining EXCEPT !.at = "start", !.body = b, !.row = NoRow] :
                               b \in JoinBodies }]

\* the handler up to its first await of the store: the environment check,
\* req.json(), the validation, and the select being issued
JoinRecv(j) ==
  /\ joins[j].at = "start"
  /\ IF ~(SupabaseEnv \subseteq env) THEN JoinDone(j, 500, "env")
     ELSE IF ~joins[j].body.parses THEN JoinDone(j, 500, "catch")
     ELSE IF joins[j].body.room_id = "undefined"
             \/ (joins[j].body.email = "undefined" /\ joins[j].body.phone_e164 = "undefined")
     THEN JoinDone(j, 400, "validation")
     ELSE joins' = [joins EXCEPT ![j].at = "select"]
  /\ UNCHANGED << geocodeVars, env, members >>

\* the store answers the select: an error, or the rows that match.
\* maybeSingle() gives the row when exactly one matches, null when none
\* does, and the error PGRST116, which the handler lets pass, when several
\* do; with a row the update is issued, without one the insert
JoinSelect(j) ==
  /\ joins[j].at = "select"
  /\ \/ JoinDone(j, 500, "select members")
     \/ /\ Cardinality(Matching(joins[j].body)) = 1
        /\ \E k \in Matching(joins[j].body) :
             joins' = [joins EXCEPT ![j].at = "update", ![j].row = members[k]]
     \/ /\ Cardinality(Matching(joins[j].body)) # 1
        /\ joins' = [joins EXCEPT ![j].at = "insert"]
  /\ UNCHANGED << geocodeVars, env, members >>

\* the store answers the update of the row whose id was read
JoinUpdate(j) ==
  /\ joins[j].at = "update"
  /\ \/ JoinDone(j, 500, "update members") /\ UNCHANGED members
     \/ /\ \E k \in 1..Len(members) :
             /\ members[k].id = joins[j].row.id
             /\ members' = [members EXCEPT ![k] = Updated(members[k], joins[j].row, joins[j].body)]
        /\ JoinDone(j, 200, "updated")
  /\ UNCHANGED << geocodeVars, env >>

\* the store answers the insert: an error, or the new row is stored
JoinInsert(j) ==
  /\ joins[j].at = "insert"
  /\ \/ JoinDone(j, 500, "insert members") /\ UNCHANGED members
     \/ /\ members' = Append(members, Inserted(joins[j].body))
        /\ JoinDone(j, 200, "created")
  /\ UNCHANGED << geocodeVars, env >>

JoinNext ==
  \/ \E j \in Joiners : JoinRecv(j)
  \/ \E j \in Joiners : JoinSelect(j)
  \/ \E j \in Joiners : JoinUpdate(j)
  \/ \E j \in Joiners : JoinInsert(j)

JoinSpec == JoinInit /\ [][JoinNext]_vars

\* two rows of the same room with the same email or the same phone
SameContact(a, b) ==
  /\ a.room_id = b.room_id
  /\ \/ a.email # "null" /\ a.email = b.email
     \/ a.phone_e164 # "null" /\ a.phone_e164 = b.phone_e164

\* C30: member join is idempotent under concurrency.  Whatever the
\* interleaving of the join requests, the members table holds at most one
\* row for a room and a contact (email or phone).
C30_JoinIdempotent ==
  \A a, b \in 1..Len(members) :
    SameContact(members[a], members[b]) => a = b

====================================================================
